---- MODULE Spec2Model ----
(***************************************************************************)
(* Verification model of the alphintra trading service.                    *)
(*                                                                         *)
(* Spec      : the Trading Control API (POST /start, POST /stop) together  *)
(*             with the Trading Orchestrator worker threads it launches    *)
(*             (api_server.py, bot.py).  HTTP handlers are coroutines      *)
(*             without an await, so each runs atomically on the event      *)
(*             loop; the worker threads interleave with them step by step. *)
(* FairSpec  : Spec plus weak fairness of every worker thread's steps (the *)
(*             OS scheduler runs a runnable thread eventually); requests   *)
(*             are never forced.                                           *)
(* TradeSpec : one Signal Processor with its Trade Lifecycle Manager and   *)
(*             the orchestrator's position-monitoring step                 *)
(*             (signal_processor.py, trading_manager.py, bot.py).          *)
(*                                                                         *)
(* Python None is modelled as the string "None" for text values and as 0   *)
(* for ids, timestamps and numbers (both are falsy in the source's tests). *)
(***************************************************************************)
EXTENDS Integers, Sequences, FiniteSets, TLC

None == "None"
NoneId == 0
\* datetime.now() / datetime.utcnow(): some instant, told apart from None only
Timestamp == 1

(***************************************************************************)
(* Bounds of the model.                                                    *)
(***************************************************************************)
MaxRequests == 2      \* HTTP requests served by the process
MaxCalls == 2         \* calls made on the Signal Processor and the monitor
MaxOps == 3           \* calls made on the Trade Lifecycle Manager

(***************************************************************************)
(* Configuration and catalog contents.                                     *)
(***************************************************************************)
Users == {1, 2}
TRADING_PAIRS == {"BTC/USDT", "ETH/USDT"}
RequestCoins == {None, "XYZ/USDT"}
RequestStrategies == {"rsi-001", "bb-001"}
CapitalScale == 10    \* capital percentages are held in tenths of a percent
RequestCapitals == {0, 5, 10, 1000, 1010}
\* a row of wallet_connections (wallet-service models.py); the rows of a user
\* are held in the order of their created_at
WalletRow(exchange_name, is_active, connection_status) ==
    [exchange_name |-> exchange_name, is_active |-> is_active,
     connection_status |-> connection_status]

\* what the wallet database holds for a user: whether reading it succeeds,
\* and the user's rows
WalletTables ==
    {[reachable |-> FALSE,
      rows |-> <<WalletRow("binance", TRUE, "connected")>>],
     [reachable |-> TRUE, rows |-> <<>>],
     [reachable |-> TRUE,
      rows |-> <<WalletRow("binance", TRUE, "connected"),
                 WalletRow("binance", TRUE, "error")>>],
     [reachable |-> TRUE,
      rows |-> <<WalletRow("binance", TRUE, "connected"),
                 WalletRow("binance", FALSE, "disconnected")>>]}

ConnectedWallet ==
    [reachable |-> TRUE, rows |-> <<WalletRow("binance", TRUE, "connected")>>]

VARIABLES
    bot_status,            \* api_server.bot_status
    bot_instance,          \* api_server.bot_instance: index of a bot object, 0 = None
    bot_thread,            \* api_server.bot_thread: index of a worker, 0 = None
    current_execution_id,  \* api_server.current_execution_id, 0 = None
    executions,            \* table bot_executions; the row id is the index
    workers,               \* the threads started by /start, in launch order
    bots,                  \* the TradingBot object built by each worker
    wallet,                \* per user: the wallet database as the service sees it
    served,                \* number of requests served so far
    resp,                  \* the response to the request served last
    positions,             \* SignalProcessor.positions, per symbol
    trading_manager,       \* SignalProcessor.trading_manager is not None
    usdt_free,             \* free USDT on the Testnet account
    demo_orders,           \* market orders sent to the Testnet venue, in order
    orders,                \* table orders; the order id is the index
    position_rows,         \* table positions, in the order of the row ids
    trade_history,         \* table trade_history of the execution
    last_run,              \* bot_executions.last_run of the execution
    calls,                 \* number of processor and monitoring calls so far
    ret,                   \* what the call made last returned
    wallet_connections,    \* wallet service: table wallet_connections, by id
    handlers,              \* wallet service: the requests received, in order
    http,                  \* wallet service: the response sent last
    bot_logs,              \* api_server.bot_logs, oldest entry first
    appended,              \* number of entries appended to bot_logs so far
    log_pc,                \* per thread: where it is in an append
    log_calls,             \* number of appends begun in this run
    market,                \* strategy: the frame and price handed to it
    trading_signal,        \* strategy: the TradingSignal it returned
    bot_loop,              \* one TradingBot inside start(): its position and fields
    cycle,                 \* what the trading cycle run last has done
    strategies,            \* table strategies, by strategy_id
    user_strategies,       \* table user_strategies, a set of rows
    purchases,             \* number of purchase_strategy calls so far
    purchased              \* what purchase_strategy returned last

apiVars == <<bot_status, bot_instance, bot_thread, current_execution_id,
             executions, workers, bots, wallet, served, resp>>

tradeVars == <<positions, trading_manager, usdt_free, demo_orders, orders,
               position_rows, trade_history, last_run, calls, ret>>

walletVars == <<wallet_connections, handlers, http>>

logVars == <<bot_logs, appended, log_pc, log_calls>>

strategyVars == <<market, trading_signal>>

cycleVars == <<bot_loop, cycle>>

purchaseVars == <<strategies, user_strategies, purchases, purchased>>

vars == <<apiVars, tradeVars, walletVars, logVars, strategyVars, cycleVars,
          purchaseVars>>

\* what the operations of one component leave alone
notApiVars == <<tradeVars, walletVars, logVars, strategyVars, cycleVars,
    purchaseVars>>
notTradeVars == <<apiVars, walletVars, logVars, strategyVars, cycleVars,
    purchaseVars>>
notWalletVars == <<apiVars, tradeVars, logVars, strategyVars, cycleVars,
    purchaseVars>>
notLogVars == <<apiVars, tradeVars, walletVars, strategyVars, cycleVars,
    purchaseVars>>
notStrategyVars == <<apiVars, tradeVars, walletVars, logVars, cycleVars,
    purchaseVars>>
notCycleVars == <<apiVars, tradeVars, walletVars, logVars, strategyVars,
    purchaseVars>>
notPurchaseVars == <<apiVars, tradeVars, walletVars, logVars, strategyVars,
    cycleVars>>

\* the wallet service before its first request, with an empty table
NoHttp == [op |-> "none", status_code |-> 0, connected |-> FALSE,
           status |-> None]

WalletIdle ==
    /\ wallet_connections = <<>>
    /\ handlers = <<>>
    /\ http = NoHttp

\* the threads that append to bot_logs: the request handlers and a worker
LogThreads == {"api", "worker"}

\* bot_logs = [] at import, no append under way
LogIdle ==
    /\ bot_logs = <<>>
    /\ appended = 0
    /\ log_pc = [t \in LogThreads |-> "idle"]
    /\ log_calls = 0

\* no frame analysed, no signal returned
NoMarket == [len |-> 0]

NoSignal == [signal |-> "none"]

StrategyIdle ==
    /\ market = NoMarket
    /\ trading_signal = NoSignal

\* no TradingBot.start() under way, no cycle run
NoLoop == [pc |-> "idle", running |-> FALSE, execution_count |-> 0,
           trading_pairs |-> {}, errors |-> 0]

NoCycle == [ran |-> FALSE]

CycleIdle ==
    /\ bot_loop = NoLoop
    /\ cycle = NoCycle

\* the strategy catalog as seeded: a built-in strategy every user may run and
\* two marketplace strategies nobody has bought yet
StrategyRow(type, total_purchases) ==
    [type |-> type, total_purchases |-> total_purchases]

SeededStrategies ==
    [strategy_id \in {"rsi-001", "mkt-001", "mkt-002"} |->
        IF strategy_id = "rsi-001" THEN StrategyRow("default", 0)
        ELSE StrategyRow("marketplace", 0)]

UserStrategy(user_id, strategy_id, access_type, purchase_price) ==
    [user_id |-> user_id, strategy_id |-> strategy_id,
     access_type |-> access_type, purchase_price |-> purchase_price]

NoPurchase == [op |-> "none", ok |-> FALSE]

PurchaseIdle ==
    /\ strategies = SeededStrategies
    /\ user_strategies = {UserStrategy(u, "rsi-001", "default", 0) : u \in {1, 2}}
    /\ purchases = 0
    /\ purchased = NoPurchase

(***************************************************************************)
(* api_server.py: module state after import.                               *)
(***************************************************************************)
InitBotStatus ==
    [running |-> FALSE, started_at |-> NoneId, last_execution |-> NoneId,
     execution_count |-> 0, mode |-> "TESTNET", wallet_connected |-> FALSE,
     strategy |-> None, coin |-> None]

BotExecutionRow(user_id, strategy_id, coin, status) ==
    [user_id |-> user_id, strategy_name |-> strategy_id,
     coin |-> IF coin # None THEN coin ELSE "all",
     status |-> status, stopped_at |-> NoneId]

\* Rows a previous process may have left behind: nothing, or a row of user 1
\* that is still marked running.
LeftoverExecutions ==
    {<<>>, <<BotExecutionRow(1, "rsi-001", None, "running")>>}

NoResponse == [op |-> "none", status |-> "none", error |-> "none",
               existing_id |-> NoneId]

ApiInit ==
    /\ bot_status = InitBotStatus
    /\ bot_instance = NoneId
    /\ bot_thread = NoneId
    /\ current_execution_id = NoneId
    /\ executions \in LeftoverExecutions
    /\ workers = <<>>
    /\ bots = <<>>
    /\ wallet \in {[u \in Users |-> IF u = 1 THEN t ELSE ConnectedWallet] :
                        t \in WalletTables}
    /\ served = 0
    /\ resp = NoResponse

(***************************************************************************)
(* StrategyDB.get_user_strategies: the ids the user is entitled to.        *)
(***************************************************************************)
get_user_strategies(user_id) ==
    IF user_id = 1 THEN {"rsi-001"} ELSE {"bb-001"}

\* Variant of ValidateStart whose upper capital limit is exclusive.
ValidateStart_Below100(user_id, strategy_id, coin, capital) ==
    IF strategy_id \notin get_user_strategies(user_id) THEN "strategy"
    ELSE IF coin # None /\ coin \notin TRADING_PAIRS THEN "coin"
    ELSE IF capital <= 0 THEN "capital_not_positive"
    ELSE IF capital >= 100 * CapitalScale THEN "capital_over_100"
    ELSE IF capital < 1 * CapitalScale THEN "capital_below_1"
    ELSE "ok"

\* Variant of ValidateStart that tests the coin before the strategy.
ValidateStart_CoinFirst(user_id, strategy_id, coin, capital) ==
    IF coin # None /\ coin \notin TRADING_PAIRS THEN "coin"
    ELSE IF strategy_id \notin get_user_strategies(user_id) THEN "strategy"
    ELSE IF capital <= 0 THEN "capital_not_positive"
    ELSE IF capital > 100 * CapitalScale THEN "capital_over_100"
    ELSE IF capital < 1 * CapitalScale THEN "capital_below_1"
    ELSE "ok"

(***************************************************************************)
(* start_bot, lines 489-526: the first violated input rule, or "ok".       *)
(***************************************************************************)
ValidateStart(user_id, strategy_id, coin, capital) ==
    IF strategy_id \notin get_user_strategies(user_id) THEN "strategy"
    ELSE IF coin # None /\ coin \notin TRADING_PAIRS THEN "coin"
    ELSE IF capital <= 0 THEN "capital_not_positive"
    ELSE IF capital > 100 * CapitalScale THEN "capital_over_100"
    ELSE IF capital < 1 * CapitalScale THEN "capital_below_1"
    ELSE "ok"

\* Variant of check_wallet_connection that reads the oldest matching row.
check_wallet_connection_Oldest(user_id) ==
    LET rows == wallet[user_id].rows
        matching == {k \in DOMAIN rows :
                        rows[k].exchange_name = "binance" /\ rows[k].is_active}
        result == CHOOSE k \in matching : \A j \in matching : k <= j
    IN  IF ~wallet[user_id].reachable
        THEN [connected |-> FALSE, status |-> "error"]
        ELSE IF matching = {}
             THEN [connected |-> FALSE, status |-> "not_found"]
        ELSE IF rows[result].connection_status = "connected"
             THEN [connected |-> TRUE, status |-> "connected"]
        ELSE [connected |-> FALSE, status |-> rows[result].connection_status]

(***************************************************************************)
(* check_wallet_connection: connected only when the read succeeds and the  *)
(* latest active binance row has status 'connected'.                       *)
(***************************************************************************)
check_wallet_connection(user_id) ==
    LET rows == wallet[user_id].rows
        \* WHERE user_id = %s AND exchange_name = 'binance' AND is_active
        matching == {k \in DOMAIN rows :
                        rows[k].exchange_name = "binance" /\ rows[k].is_active}
        \* ORDER BY created_at DESC LIMIT 1
        result == CHOOSE k \in matching : \A j \in matching : j <= k
    IN  IF ~wallet[user_id].reachable
        THEN [connected |-> FALSE, status |-> "error"]
        ELSE IF matching = {}
             THEN [connected |-> FALSE, status |-> "not_found"]
        ELSE IF rows[result].connection_status = "connected"
             THEN [connected |-> TRUE, status |-> "connected"]
        ELSE [connected |-> FALSE, status |-> rows[result].connection_status]

\* db.query(BotExecution).filter(user_id == u, status == "running")
RunningRows(user_id) ==
    {i \in DOMAIN executions :
        executions[i].user_id = user_id /\ executions[i].status = "running"}

\* .first() of that query, 0 when there is no row
FirstRunning(user_id) ==
    IF RunningRows(user_id) = {} THEN NoneId
    ELSE CHOOSE i \in RunningRows(user_id) :
            \A j \in RunningRows(user_id) : i <= j

\* threading.Thread(target=run_bot_in_thread, args=(...)); the capital
\* percentage only feeds the worker's log lines and is not kept.
NewWorker(strategy_id, coin, execution_id, user_id) ==
    [pc |-> "construct", strategy_id |-> strategy_id, coin |-> coin,
     bot_execution_id |-> execution_id, user_id |-> user_id,
     self |-> NoneId]

NoBot == [constructed |-> FALSE, running |-> FALSE, exchange_manager |-> None,
          data_fetcher |-> FALSE, signal_processor |-> FALSE,
          bot_execution_id |-> NoneId, user_id |-> 0]

StartResponse(status, error, existing_id) ==
    [op |-> "start", status |-> status, error |-> error,
     existing_id |-> existing_id]

\* Variant of StartGate that trusts the in-memory flag alone and never looks
\* at the caller's rows.
StartGate_FlagOnly(invalid, wallet_connected, existing_running_bot, running) ==
    IF invalid # "ok" THEN invalid
    ELSE IF ~wallet_connected THEN "wallet_not_connected"
    ELSE IF running THEN "bot_already_running"
    ELSE "ok"

(***************************************************************************)
(* start_bot, lines 495-564: the checks in the order the handler makes     *)
(* them; the result is the reason of the rejection, or "ok".               *)
(***************************************************************************)
StartGate(invalid, wallet_connected, existing_running_bot, running) ==
    IF invalid # "ok" THEN invalid
    ELSE IF ~wallet_connected THEN "wallet_not_connected"
    ELSE IF existing_running_bot # NoneId THEN "user_has_running_bot"
    ELSE IF running THEN "bot_already_running"
    ELSE "ok"

(***************************************************************************)
(* POST /start (start_bot).  A rejection for an input rule returns before  *)
(* line 530; every later outcome has stored the wallet check's result in   *)
(* bot_status["wallet_connected"].  insertOk is whether the insert of the  *)
(* BotExecution row commits (lines 568-589): when it raises, the handler   *)
(* logs, rolls back and goes on to launch the thread with whatever         *)
(* current_execution_id holds.                                             *)
(***************************************************************************)
StartRejected(error, existing_id, wallet_connected) ==
    /\ resp' = StartResponse("error", error, existing_id)
    /\ bot_status' = [bot_status EXCEPT !.wallet_connected = wallet_connected]
    /\ UNCHANGED <<bot_instance, bot_thread, current_execution_id,
                   executions, workers, bots>>

\* the query for the caller's running row raises (lines 541-556): the
\* exception leaves the handler and the framework answers HTTP 500
StartLookupFailed ==
    /\ resp' = StartResponse("http_500", "none", NoneId)
    /\ bot_status' = [bot_status EXCEPT !.wallet_connected = TRUE]
    /\ UNCHANGED <<bot_instance, bot_thread, current_execution_id,
                   executions, workers, bots>>

StartAccepted(user_id, strategy_id, coin, capital, insertOk) ==
    LET new_id == Len(executions) + 1
        execution_id == IF insertOk THEN new_id ELSE current_execution_id
    IN  /\ executions' =
              IF insertOk
              THEN Append(executions,
                          BotExecutionRow(user_id, strategy_id, coin, "running"))
              ELSE executions
        /\ current_execution_id' = execution_id
        /\ workers' = Append(workers,
              NewWorker(strategy_id, coin, execution_id, user_id))
        /\ bots' = Append(bots, NoBot)
        /\ bot_thread' = Len(workers) + 1
        /\ bot_status' = [bot_status EXCEPT !.wallet_connected = TRUE]
        /\ resp' = StartResponse("success", "none", NoneId)
        /\ UNCHANGED bot_instance

start_bot(user_id, strategy_id, coin, capital) ==
    /\ served < MaxRequests
    /\ served' = served + 1
    /\ LET invalid == ValidateStart(user_id, strategy_id, coin, capital)
           wallet_status == check_wallet_connection(user_id)
           existing_running_bot == FirstRunning(user_id)
           gate == StartGate(invalid, wallet_status.connected,
                             existing_running_bot, bot_status.running)
       IN  IF gate = invalid /\ invalid # "ok"
           THEN StartRejected(gate, NoneId, bot_status.wallet_connected)
           ELSE IF gate = "wallet_not_connected"
           THEN StartRejected(gate, NoneId, FALSE)
           ELSE \/ StartLookupFailed
                \/ IF gate = "ok"
                   THEN \E insertOk \in BOOLEAN :
                            StartAccepted(user_id, strategy_id, coin, capital,
                                          insertOk)
                   ELSE StartRejected(gate,
                            IF gate = "user_has_running_bot"
                            THEN existing_running_bot ELSE NoneId,
                            TRUE)
    /\ UNCHANGED <<wallet, notApiVars>>

(***************************************************************************)
(* TradingBot.stop: clears the running flag and closes the exchange.       *)
(***************************************************************************)
BotStop(bot) ==
    [bot EXCEPT !.running = FALSE,
                !.exchange_manager =
                    IF bot.exchange_manager # None THEN "closed" ELSE None]

\* Variant of ClearedStatus that leaves the strategy and the coin in place.
ClearedStatus_FlagOnly(status) ==
    [status EXCEPT !.running = FALSE, !.started_at = NoneId]

\* stop_bot lines 664-667, run_bot_in_thread lines 302-305 and 310-313
ClearedStatus(status) ==
    [status EXCEPT !.running = FALSE, !.started_at = NoneId,
                   !.strategy = None, !.coin = None]

StopResponse(status, error) ==
    [op |-> "stop", status |-> status, error |-> error,
     existing_id |-> NoneId]

(***************************************************************************)
(* POST /stop (stop_bot).  dbFault is where the database fails: "query"    *)
(* (the first read), "commit" (the status update) or "none".               *)
(***************************************************************************)
stop_bot(user_id, dbFault) ==
    /\ served < MaxRequests
    /\ served' = served + 1
    /\ LET running_bot == FirstRunning(user_id)
           execution_id_to_stop ==
               IF current_execution_id # NoneId THEN current_execution_id
               ELSE running_bot
           row_found == execution_id_to_stop \in DOMAIN executions
           stopped_bots ==
               IF bot_instance # NoneId
               THEN [bots EXCEPT ![bot_instance] = BotStop(@)]
               ELSE bots
       IN  IF dbFault = "query"
           THEN /\ resp' = StopResponse("http_500", "database")
                /\ UNCHANGED <<bot_status, bot_instance, current_execution_id,
                               executions, bots>>
           ELSE IF ~bot_status.running /\ running_bot = NoneId
           THEN /\ resp' = StopResponse("error", "not_running")
                /\ UNCHANGED <<bot_status, bot_instance, current_execution_id,
                               executions, bots>>
           ELSE IF dbFault = "commit" /\ row_found
           THEN /\ bots' = stopped_bots
                /\ bot_instance' = NoneId
                /\ resp' = StopResponse("http_500", "database")
                /\ UNCHANGED <<bot_status, current_execution_id, executions>>
           ELSE /\ bots' = stopped_bots
                /\ bot_instance' = NoneId
                /\ executions' =
                      IF row_found
                      THEN [executions EXCEPT
                               ![execution_id_to_stop].status = "stopped",
                               ![execution_id_to_stop].stopped_at = Timestamp]
                      ELSE executions
                /\ bot_status' = ClearedStatus(bot_status)
                /\ current_execution_id' = NoneId
                /\ resp' = StopResponse("success", "none")
    /\ UNCHANGED <<wallet, workers, bot_thread, notApiVars>>

(***************************************************************************)
(* run_bot_in_thread: the worker thread, one action per step.  Every use   *)
(* of bot_instance in it reads the module-level handle again, so the       *)
(* object a step acts on is whatever the handle refers to at that moment;  *)
(* a None handle raises AttributeError, which the except clause turns into *)
(* a cleared status record.                                                *)
(***************************************************************************)
SetWorker(w, pc, self) ==
    workers' = [workers EXCEPT ![w].pc = pc, ![w].self = self]

\* load_strategy, lines 110-142: how the try body ends.  "loaded": the
\* catalog entry, the file and the class are there; otherwise the first thing
\* that is wrong.
LoadCases == {"loaded", "no_entry", "no_file_reference", "file_missing",
              "import_fails", "class_absent", "constructor_raises"}

LoadExceptions == {"ValueError", "FileNotFoundError", "ImportError",
                   "AttributeError", "Exception"}

\* strategies.python_class of a catalog entry: "rsi-001" is the entry of the
\* built-in strategy, every other entry names a class of its own
python_class(strategy_id) ==
    IF strategy_id = "rsi-001" THEN "RSIMeanReversionStrategy"
    ELSE "CustomStrategy"

\* the instance the try body returns (written as the name of its class), or
\* the exception it raises
LoadAttempt(strategy_id, case) ==
    IF case \in {"no_entry", "no_file_reference"} THEN "ValueError"
    ELSE IF case = "file_missing" THEN "FileNotFoundError"
    ELSE IF case = "import_fails" THEN "ImportError"
    ELSE IF case = "class_absent" THEN "AttributeError"
    ELSE IF case = "constructor_raises" THEN "Exception"
    ELSE python_class(strategy_id)

\* load_strategy letting the exception of the try body through: None stands
\* for the call raising
load_strategy_Reraise(strategy_id, case) ==
    IF LoadAttempt(strategy_id, case) \in LoadExceptions
    THEN None
    ELSE LoadAttempt(strategy_id, case)

\* load_strategy, lines 101-150: except Exception returns the built-in
\* strategy
load_strategy(strategy_id, case) ==
    IF LoadAttempt(strategy_id, case) \in LoadExceptions
    THEN "RSIMeanReversionStrategy"
    ELSE LoadAttempt(strategy_id, case)

\* lines 267-293: logging set-up, strategy loading, TradingBot(...).  The
\* bot is built with the instance load_strategy returns; the record of the
\* bot keeps the fields the requests and the worker read.  An exception
\* raised by load_strategy would go to the except clause (306-313), which
\* clears the status record, and the thread would end without a bot.
WorkerConstruct(w, case) ==
    /\ w \in DOMAIN workers
    /\ workers[w].pc = "construct"
    /\ IF load_strategy(workers[w].strategy_id, case) # None
       THEN /\ bots' = [bots EXCEPT ![w] =
                   [NoBot EXCEPT !.constructed = TRUE,
                                 !.bot_execution_id = workers[w].bot_execution_id,
                                 !.user_id = workers[w].user_id]]
            /\ bot_instance' = w
            /\ SetWorker(w, "initialize", NoneId)
            /\ UNCHANGED bot_status
       ELSE /\ bot_status' = ClearedStatus(bot_status)
            /\ SetWorker(w, "done", NoneId)
            /\ UNCHANGED <<bots, bot_instance>>
    /\ UNCHANGED <<bot_thread, current_execution_id, executions,
                   wallet, served, resp, notApiVars>>

(***************************************************************************)
(* TradingBot.initialize: "config" = Config.validate() fails, "exchange" = *)
(* ExchangeManager.initialize() fails, "ok" = all components are built.    *)
(***************************************************************************)
InitOutcomes == {"ok", "config", "exchange"}

BotInitialize(bot, outcome) ==
    IF outcome = "config" THEN bot
    ELSE IF outcome = "exchange" THEN [bot EXCEPT !.exchange_manager = "open"]
    ELSE [bot EXCEPT !.exchange_manager = "open", !.data_fetcher = TRUE,
                     !.signal_processor = TRUE]

\* line 295 with its else branch (301-305) and the except clause (306-313)
WorkerInitialize(w, outcome) ==
    /\ w \in DOMAIN workers
    /\ workers[w].pc = "initialize"
    /\ IF bot_instance = NoneId
       THEN /\ bot_status' = ClearedStatus(bot_status)
            /\ SetWorker(w, "done", NoneId)
            /\ UNCHANGED bots
       ELSE /\ bots' = [bots EXCEPT ![bot_instance] = BotInitialize(@, outcome)]
            /\ IF outcome = "ok"
               THEN /\ SetWorker(w, "set_status", NoneId)
                    /\ UNCHANGED bot_status
               ELSE /\ bot_status' = ClearedStatus(bot_status)
                    /\ SetWorker(w, "done", NoneId)
    /\ UNCHANGED <<bot_instance, bot_thread, current_execution_id, executions,
                   wallet, served, resp, notApiVars>>

\* lines 296-299
WorkerSetStatus(w) ==
    /\ w \in DOMAIN workers
    /\ workers[w].pc = "set_status"
    /\ bot_status' = [bot_status EXCEPT
           !.running = TRUE, !.started_at = Timestamp,
           !.strategy = workers[w].strategy_id,
           !.coin = IF workers[w].coin # None THEN workers[w].coin ELSE "all"]
    /\ SetWorker(w, "call_start", NoneId)
    /\ UNCHANGED <<bot_instance, bot_thread, current_execution_id, executions,
                   bots, wallet, served, resp, notApiVars>>

\* TradingBot.start, lines 114-116: all three components must be present
BotInitialized(bot) ==
    bot.exchange_manager # None /\ bot.data_fetcher /\ bot.signal_processor

\* line 300 and TradingBot.start lines 114-125: the component check, the
\* running flag, and the first cycle, which runs to completion whatever
\* happens to the flag meanwhile
WorkerCallStart(w) ==
    /\ w \in DOMAIN workers
    /\ workers[w].pc = "call_start"
    /\ IF bot_instance = NoneId
       THEN /\ bot_status' = ClearedStatus(bot_status)
            /\ SetWorker(w, "done", NoneId)
            /\ UNCHANGED bots
       ELSE IF ~BotInitialized(bots[bot_instance])
       THEN /\ SetWorker(w, "done", NoneId)
            /\ UNCHANGED <<bot_status, bots>>
       ELSE /\ bots' = [bots EXCEPT ![bot_instance].running = TRUE]
            /\ SetWorker(w, "loop_test", bot_instance)
            /\ UNCHANGED bot_status
    /\ UNCHANGED <<bot_instance, bot_thread, current_execution_id, executions,
                   wallet, served, resp, notApiVars>>

\* TradingBot.start line 128: while self.running
WorkerLoopTest(w) ==
    /\ w \in DOMAIN workers
    /\ workers[w].pc = "loop_test"
    /\ IF bots[workers[w].self].running
       THEN SetWorker(w, "sleep", workers[w].self)
       ELSE SetWorker(w, "done", workers[w].self)
    /\ UNCHANGED <<bot_status, bot_instance, bot_thread, current_execution_id,
                   executions, bots, wallet, served, resp, notApiVars>>

\* TradingBot._sleep_with_interrupt followed by lines 136-137.  The sleep
\* re-reads the flag every second; a pass that finds it set and the interval
\* not yet over changes nothing, so only the pass that ends the sleep is a
\* step: the interval is over or the flag is clear.  A cycle then runs if the
\* flag is still set, and control returns to the loop test.
WorkerSleep(w) ==
    /\ w \in DOMAIN workers
    /\ workers[w].pc = "sleep"
    /\ SetWorker(w, "loop_test", workers[w].self)
    /\ UNCHANGED <<bot_status, bot_instance, bot_thread, current_execution_id,
                   executions, bots, wallet, served, resp, notApiVars>>

WorkerStep(w) ==
    \/ \E case \in LoadCases : WorkerConstruct(w, case)
    \/ \E outcome \in InitOutcomes : WorkerInitialize(w, outcome)
    \/ WorkerSetStatus(w)
    \/ WorkerCallStart(w)
    \/ WorkerLoopTest(w)
    \/ WorkerSleep(w)

(***************************************************************************)
(* signal_processor.py, trading_manager.py and bot.py: one Signal          *)
(* Processor, the tables its Trade Lifecycle Manager writes and the        *)
(* orchestrator's position-monitoring step.                                *)
(*                                                                         *)
(* Prices are whole USDT, quantities are millionths of a coin, and the     *)
(* floats the source computes (average entry price, PnL) are kept as       *)
(* reduced fractions <<numerator, denominator>>.                           *)
(***************************************************************************)
min_confidence == 50
Micro == 1000000

SignalTypes == {"BUY", "SELL", "HOLD"}
Confidences == {49, 50}
\* the (entry_price, stop_loss, take_profit) a strategy attaches to a signal:
\* nothing, or an entry price with both levels
SignalPrices == {<<NoneId, NoneId, NoneId>>, <<100, 95, 110>>}
\* the order_size argument: NoSize is None, the others are quantities
NoSize == -1
OrderSizes == {NoSize, 0, 1000}
\* free USDT on the Testnet account; 0 is also what a failed read returns
Balances == {0, 1}
\* what fetch_ticker reports as 'last'; NoneId when the ticker is unavailable
TickerPrices == {NoneId, 95, 100, 110}
\* the 'price' of an order the Testnet venue accepted: None or a fill price
VenuePrices == {NoneId, 104}
\* the trading database during one execute_signal call
DbOutcomes == {"ok", "create_fails", "fill_fails"}

RECURSIVE GCD(_, _)
GCD(a, b) == IF b = 0 THEN a ELSE GCD(b, a % b)

Abs(x) == IF x < 0 THEN -x ELSE x

\* the fraction n/d, reduced, with a positive denominator
Rat(n, d) ==
    LET g == GCD(Abs(n), Abs(d))
        s == IF d < 0 THEN -1 ELSE 1
    IN  <<(s * n) \div g, (s * d) \div g>>

\* round(n/d) as Python rounds: to the nearest integer, ties to even
RoundDiv(n, d) ==
    LET q == n \div d
        r == n % d
    IN  IF 2 * r < d THEN q
        ELSE IF 2 * r > d THEN q + 1
        ELSE IF q % 2 = 0 THEN q ELSE q + 1

Untracked ==
    [side |-> None, entry_price |-> NoneId, stop_loss |-> NoneId,
     take_profit |-> NoneId, confidence |-> 0]

NoReturn == [op |-> "none", success |-> FALSE, positions_closed |-> 0]

TradeIdle ==
    /\ positions = [s \in TRADING_PAIRS |-> Untracked]
    /\ trading_manager = FALSE
    /\ usdt_free = 0
    /\ demo_orders = <<>>
    /\ orders = <<>>
    /\ position_rows = <<>>
    /\ trade_history = <<>>
    /\ last_run = NoneId
    /\ calls = 0
    /\ ret = NoReturn

\* SignalProcessor.__init__: the manager exists when the execution id and the
\* user id are both set.
ProcessorInit ==
    /\ positions = [s \in TRADING_PAIRS |-> Untracked]
    /\ trading_manager \in BOOLEAN
    /\ usdt_free \in Balances
    /\ demo_orders = <<>>
    /\ orders = <<>>
    /\ position_rows = <<>>
    /\ trade_history = <<>>
    /\ last_run = NoneId
    /\ calls = 0
    /\ ret = NoReturn

TradingSignal(signal, confidence, prices) ==
    [signal |-> signal, confidence |-> confidence, entry_price |-> prices[1],
     stop_loss |-> prices[2], take_profit |-> prices[3]]

\* Variant of confidence_too_low that also turns away the threshold itself.
confidence_too_low_Inclusive(signal) == signal.confidence <= min_confidence

confidence_too_low(signal) == signal.confidence < min_confidence

\* _calculate_order_size in millionths: 5% to 10% of the balance at the entry
\* price, rounded to 6, 4 or 2 decimals by magnitude.
_calculate_order_size(signal, balance) ==
    LET n == balance * (500 + 5 * signal.confidence) * (Micro \div 10000)
        d == signal.entry_price
    IN  IF ~(signal.entry_price # NoneId /\ signal.entry_price > 0) THEN 0
        ELSE IF n < d * (Micro \div 1000) THEN RoundDiv(n, d)
        ELSE IF n < d * Micro THEN RoundDiv(n, d * 100) * 100
        ELSE RoundDiv(n, d * 10000) * 10000

\* Variant of _should_execute that lets a SELL through with nothing tracked.
_should_execute_SellUntracked(symbol, signal) ==
    IF signal.signal = "BUY" THEN positions[symbol].side # "buy"
    ELSE IF signal.signal = "SELL" THEN positions[symbol].side # "sell"
    ELSE TRUE

_should_execute(symbol, signal) ==
    IF signal.signal = "BUY" THEN positions[symbol].side # "buy"
    ELSE IF signal.signal = "SELL"
    THEN positions[symbol].side # None /\ positions[symbol].side # "sell"
    ELSE TRUE

\* TradingManager.__init__: the execution and the user the manager of the
\* Signal Processor writes for
ManagerExecution == 1

\* TradingManager.create_order: the row it inserts; filled_quantity takes the
\* column default.  The table has no average_price column.
NewOrder(bot_execution_id, symbol, side, quantity, price) ==
    [bot_execution_id |-> bot_execution_id, symbol |-> symbol, side |-> side,
     order_type |-> "MARKET", price |-> price, quantity |-> quantity,
     filled_quantity |-> 0, status |-> "PENDING"]

\* db.query(Position).filter(bot_execution_id == ..., symbol == ...)
PositionIds(rows, bot_execution_id, symbol) ==
    {k \in DOMAIN rows : /\ rows[k].bot_execution_id = bot_execution_id
                         /\ rows[k].symbol = symbol}

\* Variant of FirstPosition that never finds a row.
FirstPosition_Blind(rows, bot_execution_id, symbol) == NoneId

\* .first() of that query, 0 when there is no row
FirstPosition(rows, bot_execution_id, symbol) ==
    IF PositionIds(rows, bot_execution_id, symbol) = {} THEN NoneId
    ELSE CHOOSE k \in PositionIds(rows, bot_execution_id, symbol) :
            \A j \in PositionIds(rows, bot_execution_id, symbol) : k <= j

\* db.delete(position)
DeleteRow(rows, k) ==
    [j \in 1..(Len(rows) - 1) |-> IF j < k THEN rows[j] ELSE rows[j + 1]]

\* Variant of _open_position in which an add-on fill brings its own levels.
_open_position_NewLevels(rows, bot_execution_id, symbol, entry_price, quantity, stop_loss, take_profit) ==
    LET k == FirstPosition(rows, bot_execution_id, symbol)
    IN  IF k # NoneId
        THEN [rows EXCEPT
                ![k].entry_price =
                    Rat(rows[k].entry_price[1] * rows[k].quantity
                            + entry_price * quantity * rows[k].entry_price[2],
                        rows[k].entry_price[2] * (rows[k].quantity + quantity)),
                ![k].quantity = rows[k].quantity + quantity,
                ![k].stop_loss = stop_loss,
                ![k].take_profit = take_profit]
        ELSE Append(rows,
                [bot_execution_id |-> bot_execution_id, symbol |-> symbol,
                 entry_price |-> <<entry_price, 1>>, quantity |-> quantity,
                 current_price |-> entry_price, unrealized_pnl |-> <<0, 1>>,
                 stop_loss |-> stop_loss, take_profit |-> take_profit])

\* TradingManager._open_position: the table afterwards
_open_position(rows, bot_execution_id, symbol, entry_price, quantity, stop_loss, take_profit) ==
    LET k == FirstPosition(rows, bot_execution_id, symbol)
    IN  IF k # NoneId
        THEN [rows EXCEPT
                ![k].entry_price =
                    Rat(rows[k].entry_price[1] * rows[k].quantity
                            + entry_price * quantity * rows[k].entry_price[2],
                        rows[k].entry_price[2] * (rows[k].quantity + quantity)),
                ![k].quantity = rows[k].quantity + quantity]
        ELSE Append(rows,
                [bot_execution_id |-> bot_execution_id, symbol |-> symbol,
                 entry_price |-> <<entry_price, 1>>, quantity |-> quantity,
                 current_price |-> entry_price, unrealized_pnl |-> <<0, 1>>,
                 stop_loss |-> stop_loss, take_profit |-> take_profit])

\* (exit_price - entry_price) * quantity
PnL(row, price, quantity) ==
    Rat((price * row.entry_price[2] - row.entry_price[1]) * quantity,
        row.entry_price[2])

\* Variant of TradeResult that counts a trade at break-even as a profit.
TradeResult_BreakEvenProfit(pnl) == IF pnl[1] >= 0 THEN "PROFIT" ELSE "LOSS"

\* _close_position line 215
TradeResult(pnl) == IF pnl[1] > 0 THEN "PROFIT" ELSE "LOSS"

\* the TradeHistory row _close_position records
Trade(bot_execution_id, symbol, row, exit_price, quantity) ==
    [bot_execution_id |-> bot_execution_id, symbol |-> symbol,
     buy_price |-> row.entry_price, sell_price |-> exit_price,
     quantity |-> quantity, pnl |-> PnL(row, exit_price, quantity),
     result |-> TradeResult(PnL(row, exit_price, quantity))]

\* TradingManager._close_position: the positions table afterwards
_close_position(rows, bot_execution_id, symbol, quantity) ==
    LET k == FirstPosition(rows, bot_execution_id, symbol)
    IN  IF k = NoneId THEN rows
        ELSE IF quantity >= rows[k].quantity THEN DeleteRow(rows, k)
        ELSE [rows EXCEPT ![k].quantity = rows[k].quantity - quantity]

\* Variant of FilledOrder that adds the order's quantity to what was filled.
FilledOrder_Adds(order, filled_price) ==
    [order EXCEPT
        !.status = "FILLED",
        !.filled_quantity = order.filled_quantity + order.quantity,
        !.price = IF filled_price # NoneId THEN filled_price ELSE @]

\* TradingManager.fill_order, lines 142-149: the order row once filled
FilledOrder(order, filled_price) ==
    [order EXCEPT
        !.status = "FILLED",
        !.filled_quantity = order.quantity,
        !.price = IF filled_price # NoneId THEN filled_price ELSE @]

\* the three tables a transaction of the manager works on
Tables(o, p, t) == [orders |-> o, position_rows |-> p, trade_history |-> t]

\* fill_order committing the order's status before the position logic runs
fill_order_tx_StatusFirst(db, bot_execution_id, order_id, filled_price, stop_loss, take_profit, ok) ==
    IF order_id \notin DOMAIN db.orders THEN db
    ELSE
        LET order == FilledOrder(db.orders[order_id], filled_price)
            actual_price == order.price
            k == FirstPosition(db.position_rows, bot_execution_id,
                               order.symbol)
            raises ==
                \/ ~ok
                \/ actual_price = NoneId /\ (order.side = "BUY" \/ k # NoneId)
        IN  IF raises
            THEN Tables([db.orders EXCEPT ![order_id] = order],
                        db.position_rows, db.trade_history)
            ELSE IF order.side = "BUY"
            THEN Tables([db.orders EXCEPT ![order_id] = order],
                        _open_position(db.position_rows, bot_execution_id,
                                       order.symbol, actual_price,
                                       order.quantity, stop_loss, take_profit),
                        db.trade_history)
            ELSE IF order.side = "SELL" /\ k # NoneId
            THEN Tables([db.orders EXCEPT ![order_id] = order],
                        _close_position(db.position_rows, bot_execution_id,
                                        order.symbol, order.quantity),
                        Append(db.trade_history,
                               Trade(bot_execution_id, order.symbol,
                                     db.position_rows[k], actual_price,
                                     order.quantity)))
            ELSE Tables([db.orders EXCEPT ![order_id] = order],
                        db.position_rows, db.trade_history)

\* TradingManager.fill_order as a transaction on the tables: the tables it
\* commits, or the tables as they were when it rolls back.  It rolls back
\* when the database fails (ok is false) and when there is no price at all
\* (no fill price and no order price): _open_position then raises on the
\* entry price, _close_position while computing the PnL of the row it found.
\* The order is looked up by its id alone.
fill_order_tx(db, bot_execution_id, order_id, filled_price, stop_loss, take_profit, ok) ==
    IF order_id \notin DOMAIN db.orders THEN db
    ELSE
        LET order == FilledOrder(db.orders[order_id], filled_price)
            actual_price == order.price
            k == FirstPosition(db.position_rows, bot_execution_id,
                               order.symbol)
            raises ==
                \/ ~ok
                \/ actual_price = NoneId /\ (order.side = "BUY" \/ k # NoneId)
        IN  IF raises THEN db
            ELSE IF order.side = "BUY"
            THEN Tables([db.orders EXCEPT ![order_id] = order],
                        _open_position(db.position_rows, bot_execution_id,
                                       order.symbol, actual_price,
                                       order.quantity, stop_loss, take_profit),
                        db.trade_history)
            ELSE IF order.side = "SELL" /\ k # NoneId
            THEN Tables([db.orders EXCEPT ![order_id] = order],
                        _close_position(db.position_rows, bot_execution_id,
                                        order.symbol, order.quantity),
                        Append(db.trade_history,
                               Trade(bot_execution_id, order.symbol,
                                     db.position_rows[k], actual_price,
                                     order.quantity)))
            ELSE Tables([db.orders EXCEPT ![order_id] = order],
                        db.position_rows, db.trade_history)

\* execute_signal, lines 140-157: create_order, fill_order and
\* update_bot_last_run for an order the venue accepted.
TrackOrder(symbol, side, quantity, signal, filled_price, db) ==
    IF ~trading_manager \/ db = "create_fails"
    THEN UNCHANGED <<orders, position_rows, trade_history, last_run>>
    ELSE
        LET created ==
                Tables(Append(orders,
                              NewOrder(ManagerExecution, symbol, side,
                                       quantity, signal.entry_price)),
                       position_rows, trade_history)
            filled ==
                fill_order_tx(created, ManagerExecution, Len(created.orders),
                              filled_price,
                              IF side = "BUY" THEN signal.stop_loss ELSE NoneId,
                              IF side = "BUY" THEN signal.take_profit
                              ELSE NoneId,
                              db # "fill_fails")
        IN  /\ last_run' = Timestamp
            /\ \E tables \in {filled} :
                   /\ orders' = tables.orders
                   /\ position_rows' = tables.position_rows
                   /\ trade_history' = tables.trade_history

\* SignalProcessor._update_position
_update_position(symbol, signal) ==
    positions' = [positions EXCEPT ![symbol] =
        [side |-> IF signal.signal = "BUY" THEN "buy" ELSE "sell",
         entry_price |-> signal.entry_price, stop_loss |-> signal.stop_loss,
         take_profit |-> signal.take_profit, confidence |-> signal.confidence]]

ExecuteReturn(success) ==
    [op |-> "execute_signal", success |-> success, positions_closed |-> 0]

\* execute_signal returning False before anything is sent to the venue
NotExecuted ==
    /\ ret' = ExecuteReturn(FALSE)
    /\ UNCHANGED <<demo_orders, positions, orders, position_rows,
                   trade_history, last_run, usdt_free>>

\* the quantity execute_signal goes on with: the argument, or the computed one
OrderSize(signal, order_size) ==
    IF order_size = NoSize THEN _calculate_order_size(signal, usdt_free)
    ELSE order_size

\* an entry of the venue's order log; accepted is false when
\* create_market_order raised and place_market_order returned None
VenueOrder(symbol, side, amount, accepted) ==
    [symbol |-> symbol, side |-> side, amount |-> amount,
     accepted |-> accepted]

\* SignalProcessor.execute_signal.  The venue's answer, the state of the
\* trading database and the balance a fill leaves on the account are the
\* environment's choice.  The call returns False after an accepted order when
\* the venue reported no price: formatting it for the log raises (line 170).
execute_signal(symbol, signal, order_size) ==
    /\ calls < MaxCalls
    /\ calls' = calls + 1
    /\ IF signal.signal = "HOLD" \/ confidence_too_low(signal)
       THEN NotExecuted
       ELSE IF OrderSize(signal, order_size) <= 0
                 \/ ~_should_execute(symbol, signal)
       THEN NotExecuted
       ELSE
            LET side == IF signal.signal = "BUY" THEN "buy" ELSE "sell"
                quantity == OrderSize(signal, order_size)
            IN  \/ /\ demo_orders' = Append(demo_orders,
                            VenueOrder(symbol, side, quantity, FALSE))
                   /\ ret' = ExecuteReturn(FALSE)
                   /\ UNCHANGED <<positions, orders, position_rows,
                                  trade_history, last_run, usdt_free>>
                \/ /\ demo_orders' = Append(demo_orders,
                            VenueOrder(symbol, side, quantity, TRUE))
                   /\ usdt_free' \in Balances
                   /\ _update_position(symbol, signal)
                   /\ \E price \in VenuePrices, db \in DbOutcomes :
                        /\ ret' = ExecuteReturn(price # NoneId)
                        /\ TrackOrder(symbol,
                                      IF side = "buy" THEN "BUY" ELSE "SELL",
                                      quantity, signal, price, db)
    /\ UNCHANGED <<trading_manager, notTradeVars>>

\* _monitor_positions on one row, given the price the ticker reports.  At the
\* stop loss or the take profit the step calls
\* signal_processor._execute_sell_order, which SignalProcessor does not
\* define: the AttributeError is caught by the per-position handler and the
\* row is left as it was.
MonitorRow(row, current_price) ==
    IF current_price = NoneId THEN row
    ELSE IF row.entry_price[1] = 0 THEN row
    ELSE IF row.stop_loss # NoneId /\ current_price <= row.stop_loss THEN row
    ELSE IF row.take_profit # NoneId /\ current_price >= row.take_profit
    THEN row
    ELSE [row EXCEPT !.current_price = current_price,
                     !.unrealized_pnl = PnL(row, current_price, row.quantity)]

\* TradingBot._monitor_positions: every row of the execution, each with the
\* price its ticker reports; returns the number of positions closed.
_monitor_positions(tick) ==
    /\ calls < MaxCalls
    /\ calls' = calls + 1
    /\ position_rows' =
        [k \in DOMAIN position_rows |->
            IF position_rows[k].bot_execution_id = ManagerExecution
            THEN MonitorRow(position_rows[k], tick[position_rows[k].symbol])
            ELSE position_rows[k]]
    /\ ret' = [op |-> "_monitor_positions", success |-> FALSE,
               positions_closed |-> 0]
    /\ UNCHANGED <<notTradeVars, positions, trading_manager, usdt_free, demo_orders,
                   orders, trade_history, last_run>>

Signals ==
    {TradingSignal(t, c, p) : t \in SignalTypes, c \in Confidences,
                              p \in SignalPrices}

Tickers == [TRADING_PAIRS -> TickerPrices]

ExecuteSignalCall ==
    \E symbol \in TRADING_PAIRS, signal \in Signals, order_size \in OrderSizes :
        execute_signal(symbol, signal, order_size)

MonitorCall == \E tick \in Tickers : _monitor_positions(tick)

\* the process before any request, with the wallets connected
ApiIdle ==
    /\ ApiInit
    /\ executions = <<>>
    /\ \A u \in Users : check_wallet_connection(u).connected

TradeInit ==
    ApiIdle /\ ProcessorInit /\ WalletIdle /\ LogIdle /\ StrategyIdle /\ CycleIdle
    /\ PurchaseIdle

TradeNext == ExecuteSignalCall \/ MonitorCall

TradeSpec == TradeInit /\ [][TradeNext]_vars

(***************************************************************************)
(* trading_manager.py: the operations of one Trade Lifecycle Manager,      *)
(* called directly.  Each runs in a database session of its own, so it     *)
(* sees the rows as the table holds them.                                  *)
(***************************************************************************)
OrderSides == {"BUY", "SELL"}
OrderQuantities == {1, 2}
OrderPrices == {NoneId, 100}
FillPrices == {NoneId, 100, 110}
FillLevels == {<<NoneId, NoneId>>, <<90, 130>>}
PartialFills == {<<1, 106>>}

ManagerReturn(op, success) ==
    [op |-> op, success |-> success, positions_closed |-> 0]

\* TradingManager.create_order; ok is false when the insert fails and the
\* call returns None
create_order(symbol, side, quantity, price, ok) ==
    /\ calls < MaxOps
    /\ calls' = calls + 1
    /\ orders' = IF ok
                 THEN Append(orders, NewOrder(ManagerExecution, symbol, side,
                                              quantity, price))
                 ELSE orders
    /\ ret' = ManagerReturn("create_order", ok)
    /\ UNCHANGED <<position_rows, trade_history, last_run, positions,
                   trading_manager, usdt_free, demo_orders, notTradeVars>>

\* TradingManager.fill_order
fill_order(order_id, filled_price, stop_loss, take_profit, ok) ==
    /\ calls < MaxOps
    /\ calls' = calls + 1
    /\ \E db \in {fill_order_tx(Tables(orders, position_rows, trade_history),
                                ManagerExecution, order_id, filled_price,
                                stop_loss, take_profit, ok)} :
           /\ orders' = db.orders
           /\ position_rows' = db.position_rows
           /\ trade_history' = db.trade_history
    /\ ret' = ManagerReturn("fill_order", FALSE)
    /\ UNCHANGED <<last_run, positions, trading_manager, usdt_free,
                   demo_orders, notTradeVars>>

\* TradingManager.partial_fill, lines 82-100: the row as the code would leave
\* it.  The average price is a fraction.
PartiallyFilled(order, filled_quantity, filled_price) ==
    LET previous_filled == order.filled_quantity
        previous_avg_price ==
            IF order.average_price[1] # 0 THEN order.average_price
            ELSE <<order.price, 1>>
        new_filled == previous_filled + filled_quantity
        new_avg_price ==
            Rat(previous_filled * previous_avg_price[1]
                    + filled_quantity * filled_price * previous_avg_price[2],
                previous_avg_price[2] * new_filled)
    IN  [order EXCEPT
            !.filled_quantity = new_filled,
            !.average_price = new_avg_price,
            !.status = IF new_filled >= order.quantity THEN "FILLED"
                       ELSE "PARTIALLY_FILLED"]

\* TradingManager.partial_fill.  The row it loads is a fresh Order object;
\* Order has no average_price, so reading it at line 83 raises
\* AttributeError, the except clause rolls back and the call returns False.
partial_fill(order_id, filled_quantity, filled_price) ==
    /\ calls < MaxOps
    /\ calls' = calls + 1
    /\ IF order_id \notin DOMAIN orders
       THEN /\ ret' = ManagerReturn("partial_fill", FALSE)
            /\ UNCHANGED orders
       ELSE IF "average_price" \notin DOMAIN orders[order_id]
       THEN /\ ret' = ManagerReturn("partial_fill", FALSE)
            /\ UNCHANGED orders
       ELSE LET order == PartiallyFilled(orders[order_id], filled_quantity,
                                         filled_price)
            IN  /\ orders' = [orders EXCEPT ![order_id] = order]
                /\ ret' = ManagerReturn("partial_fill",
                                        order.status = "FILLED")
    /\ UNCHANGED <<position_rows, trade_history, last_run, positions,
                   trading_manager, usdt_free, demo_orders, notTradeVars>>

\* Variant of Cancelled that leaves a filled order alone.
Cancelled_PendingOnly(order) ==
    IF order.status = "FILLED" THEN order
    ELSE [order EXCEPT !.status = "CANCELLED"]

\* cancel_order line 268
Cancelled(order) == [order EXCEPT !.status = "CANCELLED"]

\* TradingManager.cancel_order
cancel_order(order_id, ok) ==
    /\ calls < MaxOps
    /\ calls' = calls + 1
    /\ orders' = IF order_id \in DOMAIN orders /\ ok
                 THEN [orders EXCEPT ![order_id] = Cancelled(@)]
                 ELSE orders
    /\ ret' = ManagerReturn("cancel_order", FALSE)
    /\ UNCHANGED <<position_rows, trade_history, last_run, positions,
                   trading_manager, usdt_free, demo_orders, notTradeVars>>

\* the positions table before the manager's first call: a row another
\* execution opened, alone or with a row of the manager's own execution
StoredPositions ==
    LET foreign == _open_position(<<>>, 2, "BTC/USDT", 100, 1, NoneId, NoneId)
    IN  {foreign,
         _open_position(foreign, ManagerExecution, "BTC/USDT", 100, 1,
                        95, 120)}

ManagerInit ==
    /\ ApiIdle
    /\ WalletIdle
    /\ LogIdle
    /\ StrategyIdle
    /\ CycleIdle
    /\ PurchaseIdle
    /\ positions = [s \in TRADING_PAIRS |-> Untracked]
    /\ trading_manager = TRUE
    /\ usdt_free = 0
    /\ demo_orders = <<>>
    /\ orders = <<>>
    /\ position_rows \in StoredPositions
    /\ trade_history = <<>>
    /\ last_run = NoneId
    /\ calls = 0
    /\ ret = NoReturn

\* an order id the manager is called with: one on file, or an unknown one
OrderIds == 1..(Len(orders) + 1)

\* the calls of create_order: every order with the database up, one order
\* with the database down
CreateCalls ==
    {c \in TRADING_PAIRS \X OrderSides \X OrderQuantities \X OrderPrices
            \X BOOLEAN :
        c[5] \/ (c[1] = "BTC/USDT" /\ c[2] = "BUY" /\ c[3] = 1 /\ c[4] = 100)}

CreateOrderCall ==
    \E c \in CreateCalls : create_order(c[1], c[2], c[3], c[4], c[5])

\* the calls of fill_order: every fill of an order on file with the database
\* up, one fill per order id with the database down or the id unknown
FillCalls ==
    {c \in OrderIds \X FillPrices \X FillLevels \X BOOLEAN :
        \/ c[1] \in DOMAIN orders /\ c[4]
        \/ c[2] = 100 /\ c[3] = <<NoneId, NoneId>>}

FillOrderCall ==
    \E c \in FillCalls : fill_order(c[1], c[2], c[3][1], c[3][2], c[4])

PartialFillCall ==
    \E order_id \in OrderIds, fill \in PartialFills :
        partial_fill(order_id, fill[1], fill[2])

CancelOrderCall ==
    \E order_id \in OrderIds, ok \in BOOLEAN : cancel_order(order_id, ok)

ManagerNext ==
    CreateOrderCall \/ FillOrderCall \/ PartialFillCall \/ CancelOrderCall

ManagerSpec == ManagerInit /\ [][ManagerNext]_vars

(***************************************************************************)
(* wallet-service/main.py: the Binance connection endpoints.  A handler    *)
(* that awaits the venue is two steps: up to the await, and from the       *)
(* venue's answer to the response; other requests run in between.          *)
(***************************************************************************)
MaxWallet == 2

\* a key as the validation sees it: which key it is and how long it is
Key(id, length) == [id |-> id, length |-> length]

ConnectRequest(apiKey, secretKey, environment) ==
    [apiKey |-> apiKey, secretKey |-> secretKey, environment |-> environment]

\* A str the code inspects character by character is a sequence of its
\* characters: "Prod" is <<"P", "r", "o", "d">>, the empty str is <<>>.
Whitespace == {" ", "\t", "\n"}

\* None where the code expects a str
NoText == <<None>>

\* str.lower() on the upper-case letters the requests use
UpperCase ==
    [P |-> "p", R |-> "r", O |-> "o", D |-> "d", T |-> "t", E |-> "e",
     S |-> "s", N |-> "n", L |-> "l", I |-> "i", V |-> "v"]

LowerChar(c) == IF c \in DOMAIN UpperCase THEN UpperCase[c] ELSE c

lower(text) == [k \in DOMAIN text |-> LowerChar(text[k])]

RECURSIVE lstrip(_)
lstrip(text) ==
    IF text # <<>> /\ Head(text) \in Whitespace THEN lstrip(Tail(text))
    ELSE text

RECURSIVE rstrip(_)
rstrip(text) ==
    IF text # <<>> /\ text[Len(text)] \in Whitespace
    THEN rstrip(SubSeq(text, 1, Len(text) - 1))
    ELSE text

strip(text) == rstrip(lstrip(text))

production == <<"p", "r", "o", "d", "u", "c", "t", "i", "o", "n">>
prod == <<"p", "r", "o", "d">>
mainnet == <<"m", "a", "i", "n", "n", "e", "t">>
live == <<"l", "i", "v", "e">>
testnet == <<"t", "e", "s", "t", "n", "e", "t">>
sandbox == <<"s", "a", "n", "d", "b", "o", "x">>
demo == <<"d", "e", "m", "o">>

SUPPORTED_ENVIRONMENTS ==
    [production |-> {production, prod, mainnet, live},
     testnet |-> {testnet, sandbox, demo}]

\* the variant never trims
normalize_environment_NoStrip(value) ==
    IF value = NoText \/ value = <<>> THEN "production"
    ELSE LET normalized == lower(value)
         IN  IF \/ normalized = production
                \/ normalized \in SUPPORTED_ENVIRONMENTS.production
             THEN "production"
             ELSE IF \/ normalized = testnet
                     \/ normalized \in SUPPORTED_ENVIRONMENTS.testnet
             THEN "testnet"
             ELSE "400"

\* normalize_environment; "400" stands for the HTTPException it raises
normalize_environment(value) ==
    IF value = NoText \/ value = <<>> THEN "production"
    ELSE LET normalized == lower(strip(value))
         IN  IF \/ normalized = production
                \/ normalized \in SUPPORTED_ENVIRONMENTS.production
             THEN "production"
             ELSE IF \/ normalized = testnet
                     \/ normalized \in SUPPORTED_ENVIRONMENTS.testnet
             THEN "testnet"
             ELSE "400"

\* the environment strings the requests carry
Environments ==
    {NoText, <<>>, production, prod, mainnet, live, testnet, sandbox, demo,
     <<" ", "P", "r", "o", "d", " ">>,
     <<"L", "I", "V", "E">>,
     <<"\t", "T", "e", "s", "t", "N", "e", "t", "\n">>,
     <<"D", "e", "m", "o", " ">>,
     <<"s", "t", "a", "g", "i", "n", "g">>,
     <<"p", "r", "o", " ", "d">>,
     <<" ", " ">>}

\* the bodies sent to POST /binance/connect: a valid key pair with every
\* environment, another valid pair and two rejected pairs with one each
ConnectRequests ==
    {ConnectRequest(Key("key-A", 64), Key("secret-A", 64), e) :
        e \in Environments}
    \cup {ConnectRequest(Key("", 0), Key("secret-A", 64), NoText),
          ConnectRequest(Key("key-S", 9), Key("secret-A", 64), testnet),
          ConnectRequest(Key("key-B", 64), Key("secret-B", 64), NoText)}

\* ccxt.base.errors: each error class and its base class; ValueError stands
\* for an exception that is not a venue error
ErrorBase ==
    [BaseError |-> "Exception",
     ExchangeError |-> "BaseError",
     AuthenticationError |-> "ExchangeError",
     NetworkError |-> "BaseError",
     ExchangeNotAvailable |-> "NetworkError",
     RequestTimeout |-> "NetworkError",
     DDoSProtection |-> "NetworkError",
     RateLimitExceeded |-> "NetworkError",
     ValueError |-> "Exception"]

\* what the venue call can raise
VenueErrors ==
    {"AuthenticationError", "ExchangeError", "NetworkError",
     "ExchangeNotAvailable", "RequestTimeout", "DDoSProtection",
     "RateLimitExceeded", "ValueError"}

\* the venue call returns (None) or raises
VenueOutcomes == {None} \cup VenueErrors

RECURSIVE IsInstance(_, _)
IsInstance(error, class) ==
    \/ error = class
    \/ error \in DOMAIN ErrorBase /\ IsInstance(ErrorBase[error], class)

ExceptClause(classes, status_code, last_error) ==
    [classes |-> classes, status_code |-> status_code,
     last_error |-> last_error]

\* the except clauses of a try statement are tried in the order written
FirstClause(clauses, error) ==
    LET matching == {k \in DOMAIN clauses :
                        \E c \in clauses[k].classes : IsInstance(error, c)}
    IN  clauses[CHOOSE k \in matching : \A j \in matching : k <= j]

\* get_balances: the except clauses around fetch_balance
BalancesClauses ==
    <<ExceptClause({"AuthenticationError"}, 401, "AuthenticationError"),
      ExceptClause({"ExchangeNotAvailable", "NetworkError"}, 503,
                   "Network/Exchange error"),
      ExceptClause({"RequestTimeout"}, 504, "RequestTimeout"),
      ExceptClause({"DDoSProtection", "RateLimitExceeded"}, 429, "RateLimit"),
      ExceptClause({"Exception"}, 500, "message")>>

\* connect_to_binance: the except clauses around fetch_status; only the
\* first one ends the request
ConnectClauses ==
    <<ExceptClause({"AuthenticationError"}, 401, "AuthenticationError"),
      ExceptClause({"ExchangeNotAvailable", "NetworkError", "RequestTimeout"},
                   200, "Connectivity issue during validation"),
      ExceptClause({"Exception"}, 200, "message")>>

WalletConnection(user_id, exchange_environment, api_key, secret_key) ==
    [user_id |-> user_id, exchange_name |-> "binance",
     exchange_environment |-> exchange_environment,
     encrypted_api_key |-> api_key, encrypted_secret_key |-> secret_key,
     is_active |-> TRUE, connection_status |-> "connected",
     last_error |-> None]

\* ids of the user's active Binance rows
ActiveConnections(user_id) ==
    {id \in DOMAIN wallet_connections :
        /\ wallet_connections[id].user_id = user_id
        /\ wallet_connections[id].exchange_name = "binance"
        /\ wallet_connections[id].is_active}

\* ids of the rows the read paths accept
UsableConnections(user_id) ==
    {id \in ActiveConnections(user_id) :
        wallet_connections[id].connection_status \in {"connected", "warning"}}

\* Session.commit for one loaded object: the UPDATE carries the columns whose
\* value differs from the loaded one, the others keep what the table holds
Flush(stored, loaded, edited) ==
    [f \in DOMAIN stored |->
        IF edited[f] # loaded[f] THEN edited[f] ELSE stored[f]]

HandlerDone == [op |-> "done"]

Awaiting(op, user_id, row, loaded, edited) ==
    [op |-> op, user_id |-> user_id, row |-> row, loaded |-> loaded,
     edited |-> edited]

HttpResponse(op, status_code, connected, status) ==
    [op |-> op, status_code |-> status_code, connected |-> connected,
     status |-> status]

\* POST /binance/connect up to `await exchange.fetch_status()`.  query.first()
\* has no ORDER BY: with several active rows any of them may be returned.
connect_to_binance(user_id, request) ==
    /\ Len(handlers) < MaxWallet
    /\ LET normalized_env == normalize_environment(request.environment)
       IN  IF \/ normalized_env = "400"
              \/ request.apiKey.length = 0 \/ request.secretKey.length = 0
              \/ request.apiKey.length < 10 \/ request.secretKey.length < 10
           THEN /\ handlers' = Append(handlers, HandlerDone)
                /\ http' = HttpResponse("connect", 400, FALSE, None)
           ELSE /\ IF ActiveConnections(user_id) # {}
                   THEN \E id \in ActiveConnections(user_id) :
                          handlers' = Append(handlers,
                            Awaiting("connect", user_id, id,
                              wallet_connections[id],
                              [wallet_connections[id] EXCEPT
                                 !.encrypted_api_key = request.apiKey.id,
                                 !.encrypted_secret_key = request.secretKey.id,
                                 !.connection_status = "connected",
                                 !.last_error = None,
                                 !.exchange_environment = normalized_env]))
                   ELSE LET connection ==
                                WalletConnection(user_id, normalized_env,
                                    request.apiKey.id, request.secretKey.id)
                        IN  handlers' = Append(handlers,
                              Awaiting("connect", user_id, NoneId,
                                       connection, connection))
                /\ UNCHANGED http
    /\ UNCHANGED <<wallet_connections, notWalletVars>>

\* the object as the code after the await leaves it
Validated(connection, outcome) ==
    IF outcome = None
    THEN [connection EXCEPT !.connection_status = "connected",
                            !.last_error = None]
    ELSE LET clause == FirstClause(ConnectClauses, outcome)
         IN  [connection EXCEPT
                !.connection_status =
                    IF clause.status_code = 401 THEN "error" ELSE "connected",
                !.last_error = clause.last_error]

\* db.commit(): INSERT of the added object, or UPDATE of the loaded row
Commit(rows, handler, edited) ==
    IF handler.row = NoneId
    THEN Append(rows, edited)
    ELSE [rows EXCEPT ![handler.row] = Flush(@, handler.loaded, edited)]

\* POST /binance/connect from the venue's answer to the response
connect_validated(h, outcome) ==
    /\ h \in DOMAIN handlers
    /\ handlers[h].op = "connect"
    /\ LET connection == Validated(handlers[h].edited, outcome)
           rows == Commit(wallet_connections, handlers[h], connection)
           id == IF handlers[h].row = NoneId THEN Len(rows)
                 ELSE handlers[h].row
       IN  /\ wallet_connections' = rows
           /\ http' = IF connection.connection_status = "error"
                      THEN HttpResponse("connect", 401, FALSE, None)
                      ELSE HttpResponse("connect", 200, TRUE,
                                        rows[id].connection_status)
    /\ handlers' = [handlers EXCEPT ![h] = HandlerDone]
    /\ UNCHANGED <<notWalletVars>>

\* the variant marks the row disconnected and leaves it active
Disconnected_StatusOnly(connection) ==
    [connection EXCEPT !.connection_status = "disconnected"]

\* disconnect_from_binance: what it writes to each active row
Disconnected(connection) ==
    [connection EXCEPT !.is_active = FALSE,
                       !.connection_status = "disconnected"]

\* POST /binance/disconnect
disconnect_from_binance(user_id) ==
    /\ Len(handlers) < MaxWallet
    /\ wallet_connections' =
          [id \in DOMAIN wallet_connections |->
              IF id \in ActiveConnections(user_id)
              THEN Disconnected(wallet_connections[id])
              ELSE wallet_connections[id]]
    /\ handlers' = Append(handlers, HandlerDone)
    /\ http' = HttpResponse("disconnect", 200, FALSE, "disconnected")
    /\ UNCHANGED <<notWalletVars>>

\* GET /binance/balances up to `await exchange.fetch_balance()`
get_balances(user_id) ==
    /\ Len(handlers) < MaxWallet
    /\ IF UsableConnections(user_id) = {}
       THEN /\ handlers' = Append(handlers, HandlerDone)
            /\ http' = HttpResponse("balances", 401, FALSE, None)
       ELSE /\ \E id \in UsableConnections(user_id) :
                  handlers' = Append(handlers,
                      Awaiting("balances", user_id, id,
                               wallet_connections[id],
                               wallet_connections[id]))
            /\ UNCHANGED http
    /\ UNCHANGED <<wallet_connections, notWalletVars>>

\* GET /binance/balances from the venue's answer to the response
balances_fetched(h, outcome) ==
    /\ h \in DOMAIN handlers
    /\ handlers[h].op = "balances"
    /\ IF outcome = None
       THEN /\ http' = HttpResponse("balances", 200, TRUE,
                                    handlers[h].loaded.connection_status)
            /\ UNCHANGED wallet_connections
       ELSE LET clause == FirstClause(BalancesClauses, outcome)
            IN  /\ wallet_connections' =
                      Commit(wallet_connections, handlers[h],
                             [handlers[h].loaded EXCEPT
                                 !.connection_status = "error",
                                 !.last_error = clause.last_error])
                /\ http' = HttpResponse("balances", clause.status_code,
                                        FALSE, "error")
    /\ handlers' = [handlers EXCEPT ![h] = HandlerDone]
    /\ UNCHANGED <<notWalletVars>>

\* GET /binance/connection-status; the write of last_used_at is not kept
get_connection_status(user_id) ==
    /\ Len(handlers) < MaxWallet
    /\ handlers' = Append(handlers, HandlerDone)
    /\ IF UsableConnections(user_id) = {}
       THEN http' = HttpResponse("connection-status", 200, FALSE, None)
       ELSE \E id \in UsableConnections(user_id) :
                http' = HttpResponse("connection-status", 200, TRUE,
                                     wallet_connections[id].connection_status)
    /\ UNCHANGED <<wallet_connections, notWalletVars>>

\* ids of the rows of the user, of any exchange and any state
UserConnections(userId) ==
    {id \in DOMAIN wallet_connections :
        wallet_connections[id].user_id = userId}

CredentialsResponse(status_code, apiKey, secretKey) ==
    [op |-> "credentials", status_code |-> status_code, apiKey |-> apiKey,
     secretKey |-> secretKey]

\* GET /binance/credentials?userId=...: query.first() has no ORDER BY, any
\* row of the user may be the one returned
get_binance_credentials(userId) ==
    /\ Len(handlers) < MaxWallet
    /\ handlers' = Append(handlers, HandlerDone)
    /\ IF UserConnections(userId) = {}
       THEN http' = CredentialsResponse(404, None, None)
       ELSE \E id \in UserConnections(userId) :
                http' = CredentialsResponse(200,
                            wallet_connections[id].encrypted_api_key,
                            wallet_connections[id].encrypted_secret_key)
    /\ UNCHANGED <<wallet_connections, notWalletVars>>

\* rows the table may hold when the service starts: none, or an active row
\* of user 2 and a disconnected row of user 1
StoredConnections ==
    {<<>>,
     <<WalletConnection(2, "testnet", "key-C", "secret-C"),
       [WalletConnection(1, "testnet", "key-A", "secret-A") EXCEPT
           !.is_active = FALSE, !.connection_status = "disconnected"]>>}

WalletInit ==
    /\ ApiIdle
    /\ TradeIdle
    /\ LogIdle
    /\ StrategyIdle
    /\ CycleIdle
    /\ PurchaseIdle
    /\ wallet_connections \in StoredConnections
    /\ handlers = <<>>
    /\ http = NoHttp

\* user 1 sends every body, user 2 one valid body
ConnectCalls ==
    {c \in Users \X ConnectRequests :
        c[1] = 1 \/ c[2].apiKey.id = "key-B"}

ConnectCall == \E c \in ConnectCalls : connect_to_binance(c[1], c[2])

ConnectValidated ==
    \E h \in 1..MaxWallet, outcome \in VenueOutcomes :
        connect_validated(h, outcome)

DisconnectCall == \E user_id \in Users : disconnect_from_binance(user_id)

BalancesCall == \E user_id \in Users : get_balances(user_id)

BalancesFetched ==
    \E h \in 1..MaxWallet, outcome \in VenueOutcomes :
        balances_fetched(h, outcome)

ConnectionStatusCall == \E user_id \in Users : get_connection_status(user_id)

\* the internal endpoint is also asked about a user without any row
CredentialsCall ==
    \E userId \in Users \cup {3} : get_binance_credentials(userId)

WalletNext ==
    \/ ConnectCall
    \/ ConnectValidated
    \/ DisconnectCall
    \/ BalancesCall
    \/ BalancesFetched
    \/ ConnectionStatusCall
    \/ CredentialsCall

WalletSpec == WalletInit /\ [][WalletNext]_vars

(***************************************************************************)
(* api_server.py: the in-memory log buffer.  add_bot_log and the handler's *)
(* emit run on the request thread and on the worker thread; each list      *)
(* operation is one step, another thread may run between two of them.      *)
(***************************************************************************)
MAX_LOG_LINES == 1000

MaxAppends == 4

\* the n-th entry appended; the timestamp is the position in time
LogEntry(n, level, bot_execution_id) ==
    [timestamp |-> n, level |-> level, message |-> n,
     bot_execution_id |-> IF bot_execution_id # NoneId THEN bot_execution_id
                          ELSE current_execution_id]

\* len(bot_logs) > MAX_LOG_LINES
OverLimit(logs) == Len(logs) > MAX_LOG_LINES

\* add_bot_log up to bot_logs.append(log_entry)
add_bot_log(t, level, bot_execution_id) ==
    /\ log_pc[t] = "idle"
    /\ log_calls < MaxAppends
    /\ bot_logs' = Append(bot_logs,
                          LogEntry(appended + 1, level, bot_execution_id))
    /\ appended' = appended + 1
    /\ log_calls' = log_calls + 1
    /\ log_pc' = [log_pc EXCEPT ![t] = "appended"]
    /\ UNCHANGED notLogVars

\* logging.Handler.handle holds the handler's lock around emit: no thread
\* enters emit while another one is inside it
InEmit(t) == log_pc[t] \in {"emit_appended", "emit_trim"}

\* InMemoryLogHandler.emit up to bot_logs.append(log_entry); records of the
\* uvicorn loggers are skipped
emit(t, name, level, bot_execution_id) ==
    /\ log_pc[t] = "idle"
    /\ \A other \in LogThreads : ~InEmit(other)
    /\ log_calls < MaxAppends
    /\ log_calls' = log_calls + 1
    /\ IF name \in {"uvicorn", "uvicorn.access", "uvicorn.error"}
       THEN UNCHANGED <<bot_logs, appended, log_pc>>
       ELSE /\ bot_logs' = Append(bot_logs,
                              LogEntry(appended + 1, level, bot_execution_id))
            /\ appended' = appended + 1
            /\ log_pc' = [log_pc EXCEPT ![t] = "emit_appended"]
    /\ UNCHANGED notLogVars

\* if len(bot_logs) > MAX_LOG_LINES:
check_limit(t) ==
    /\ log_pc[t] \in {"appended", "emit_appended"}
    /\ log_pc' = [log_pc EXCEPT
                     ![t] = IF ~OverLimit(bot_logs) THEN "idle"
                            ELSE IF InEmit(t) THEN "emit_trim" ELSE "trim"]
    /\ UNCHANGED <<bot_logs, appended, log_calls, notLogVars>>

\* bot_logs.pop(0)
pop_oldest(t) ==
    /\ log_pc[t] \in {"trim", "emit_trim"}
    /\ bot_logs' = Tail(bot_logs)
    /\ log_pc' = [log_pc EXCEPT ![t] = "idle"]
    /\ UNCHANGED <<appended, log_calls, notLogVars>>

\* the buffer after n appends that all fit
StoredLogs(n) == [k \in 1..n |-> LogEntry(k, "INFO", 1)]

\* a run starts on the empty buffer or on one two entries short of the limit
LogInit ==
    /\ ApiIdle
    /\ TradeIdle
    /\ WalletIdle
    /\ StrategyIdle
    /\ CycleIdle
    /\ PurchaseIdle
    /\ appended \in {0, MAX_LOG_LINES - 2}
    /\ bot_logs = StoredLogs(appended)
    /\ log_pc = [t \in LogThreads |-> "idle"]
    /\ log_calls = 0

AddBotLogCall ==
    \E t \in LogThreads, bot_execution_id \in {NoneId, 1} :
        add_bot_log(t, "INFO", bot_execution_id)

EmitCall ==
    \E t \in LogThreads, name \in {"uvicorn.access", "bot"} :
        emit(t, name, "WARNING", 1)

CheckLimit == \E t \in LogThreads : check_limit(t)

PopOldest == \E t \in LogThreads : pop_oldest(t)

LogNext == AddBotLogCall \/ EmitCall \/ CheckLimit \/ PopOldest

LogSpec == LogInit /\ [][LogNext]_vars

(***************************************************************************)
(* strategies/rsi_mean_reversion.py: RSIMeanReversionStrategy.             *)
(* A float of the frame is <<v>> for the number v and <<>> for NaN; a      *)
(* price of the signal is a fraction <<n, d>>, <<>> when it is None.       *)
(***************************************************************************)
rsi_buy_threshold == 30
rsi_sell_threshold == 70

NaN == <<>>

NoFloat == <<>>

Float(v) == <<v>>

\* pd.isna
isna(x) == x = NaN

\* x < y on floats: false when either is NaN
Less(x, y) == ~isna(x) /\ ~isna(y) /\ x[1] < y[1]

\* (price - bb_lower) / (bb_upper - bb_lower) * 100 on numpy floats: a zero
\* width gives -inf, nan or inf
bb_position(price, bb_lower, bb_upper) ==
    LET width == bb_upper[1] - bb_lower[1]
        above == price[1] - bb_lower[1]
    IN  IF width # 0
        THEN [kind |-> "num", value |-> Rat(above * 100, width)]
        ELSE [kind |-> IF above < 0 THEN "-inf"
                       ELSE IF above = 0 THEN "nan" ELSE "inf",
              value |-> Rat(0, 1)]

\* bb_position < percent
PositionBelow(position, percent) ==
    \/ position.kind = "-inf"
    \/ position.kind = "num"
         /\ position.value[1] < percent * position.value[2]

\* bb_position > percent
PositionAbove(position, percent) ==
    \/ position.kind = "inf"
    \/ position.kind = "num"
         /\ position.value[1] > percent * position.value[2]

StrategySignal(type, confidence, reason, entry_price, stop_loss, take_profit) ==
    [signal |-> type, confidence |-> confidence, reason |-> reason,
     entry_price |-> entry_price, stop_loss |-> stop_loss,
     take_profit |-> take_profit]

\* a step of the confidence: the points and the reason it adds
Step(condition, points, reason) ==
    IF condition THEN [points |-> points, reasons |-> <<reason>>]
    ELSE [points |-> 0, reasons |-> <<>>]

\* the variant scores the band position in addition to the band break
BuyBand_Both(price, bb_lower, position) ==
    LET below == Step(Less(price, bb_lower), 25, "Price below lower BB")
        near == Step(PositionBelow(position, 20), 15, "Price near lower BB")
    IN  [points |-> below.points + near.points,
         reasons |-> below.reasons \o near.reasons]

\* if price < bb_lower: +25 / elif bb_position < 20: +15
BuyBand(price, bb_lower, position) ==
    IF Less(price, bb_lower)
    THEN Step(TRUE, 25, "Price below lower BB")
    ELSE Step(PositionBelow(position, 20), 15, "Price near lower BB")

\* if price > bb_upper: +25 / elif bb_position > 80: +15
SellBand(price, bb_upper, position) ==
    IF Less(bb_upper, price)
    THEN Step(TRUE, 25, "Price above upper BB")
    ELSE Step(PositionAbove(position, 80), 15, "Price near upper BB")

\* both columns are in the frame and both values are numbers
Usable(df, a, b) ==
    /\ {a, b} \subseteq df.columns
    /\ ~isna(df.latest[a]) /\ ~isna(df.latest[b])

_generate_signal(df, current_price) ==
    LET latest == df.latest
        previous_rsi == IF df.len > 1 THEN df.previous_rsi ELSE latest.rsi
        rsi == latest.rsi
        price == latest.close
        position == bb_position(price, latest.bb_lower, latest.bb_upper)
        buy == <<Step(TRUE, 35, "RSI oversold"),
                 BuyBand(price, latest.bb_lower, position),
                 Step(df.len > 1 /\ Less(previous_rsi, rsi), 15,
                      "RSI recovering"),
                 Step(Usable(df, "macd", "macd_signal")
                        /\ Less(latest.macd_signal, latest.macd), 15,
                      "MACD bullish"),
                 Step(Usable(df, "ema_20", "ema_50")
                        /\ Less(latest.ema_20, latest.ema_50), -20,
                      "Warning: Downtrend")>>
        sell == <<Step(TRUE, 35, "RSI overbought"),
                  SellBand(price, latest.bb_upper, position),
                  Step(df.len > 1 /\ Less(rsi, previous_rsi), 15,
                       "RSI declining"),
                  Step(Usable(df, "macd", "macd_signal")
                         /\ Less(latest.macd, latest.macd_signal), 15,
                       "MACD bearish"),
                  Step(Usable(df, "ema_20", "ema_50")
                         /\ Less(latest.ema_50, latest.ema_20), -20,
                       "Warning: Uptrend")>>
        Points(steps) == steps[1].points + steps[2].points + steps[3].points
                            + steps[4].points + steps[5].points
        Reasons(steps) == steps[1].reasons \o steps[2].reasons
                            \o steps[3].reasons \o steps[4].reasons
                            \o steps[5].reasons
        Capped(confidence) == IF confidence < 90 THEN confidence ELSE 90
    IN  IF \/ isna(rsi) \/ isna(latest.bb_upper) \/ isna(latest.bb_lower)
           \/ isna(price)
        THEN StrategySignal("HOLD", 0, <<"Indicator values not available">>,
                           NoFloat, NoFloat, NoFloat)
        ELSE IF rsi[1] < rsi_buy_threshold
        THEN IF Points(buy) >= 50
             THEN StrategySignal("BUY", Capped(Points(buy)), Reasons(buy),
                                Rat(current_price, 1),
                                Rat(current_price * 97, 100),
                                Rat(current_price * 106, 100))
             ELSE StrategySignal("HOLD", Capped(Points(buy)), Reasons(buy),
                                Rat(current_price, 1), NoFloat, NoFloat)
        ELSE IF rsi[1] > rsi_sell_threshold
        THEN IF Points(sell) >= 50
             THEN StrategySignal("SELL", Capped(Points(sell)), Reasons(sell),
                                Rat(current_price, 1),
                                Rat(current_price * 103, 100),
                                Rat(current_price * 94, 100))
             ELSE StrategySignal("HOLD", Capped(Points(sell)), Reasons(sell),
                                Rat(current_price, 1), NoFloat, NoFloat)
        ELSE StrategySignal("HOLD", 20, <<"RSI neutral", "BB position">>,
                           Rat(current_price, 1), NoFloat, NoFloat)

\* the last row of the frame; a column the frame lacks holds NaN here
Row(rsi, close, bands, macd, ema) ==
    [rsi |-> rsi, close |-> close, bb_lower |-> bands[1],
     bb_upper |-> bands[2], bb_middle |-> bands[3],
     macd |-> macd[1], macd_signal |-> macd[2],
     ema_20 |-> ema[1], ema_50 |-> ema[2]]

Frame(len, columns, latest, previous_rsi) ==
    [len |-> len, columns |-> columns, latest |-> latest,
     previous_rsi |-> previous_rsi]

RsiValues == {NaN, Float(25), Float(30), Float(50), Float(70), Float(75)}
PreviousRsiValues == {Float(20), Float(80)}
CloseValues == {NaN, Float(95), Float(101), Float(104), Float(116), Float(125)}
BandValues ==
    {<<Float(100), Float(120), Float(110)>>,
     <<Float(101), Float(101), Float(101)>>,
     <<NaN, Float(120), Float(110)>>}
PairColumns == {{}, {"macd", "macd_signal"}, {"ema_20", "ema_50"},
                {"macd", "macd_signal", "ema_20", "ema_50"}}
MacdValues == {<<NaN, Float(0)>>, <<Float(1), Float(0)>>,
               <<Float(-1), Float(0)>>}
EmaValues == {<<Float(99), Float(100)>>, <<Float(101), Float(100)>>}
FrameLengths == {1, 50}
CurrentPrices == {100, 250}

\* the frames and prices the strategy is called with
Markets ==
    {[df |-> Frame(len, {"rsi", "close", "bb_lower", "bb_upper", "bb_middle"}
                            \cup columns,
                   Row(rsi, close, bands, macd, ema), previous_rsi),
      current_price |-> current_price] :
        len \in FrameLengths, columns \in PairColumns, rsi \in RsiValues,
        close \in CloseValues, bands \in BandValues, macd \in MacdValues,
        ema \in EmaValues, previous_rsi \in PreviousRsiValues,
        current_price \in CurrentPrices}

StrategyInit ==
    /\ ApiIdle
    /\ TradeIdle
    /\ WalletIdle
    /\ LogIdle
    /\ CycleIdle
    /\ PurchaseIdle
    /\ market \in Markets
    /\ trading_signal = NoSignal

\* RSIMeanReversionStrategy._generate_signal(df, current_price, symbol)
GenerateSignal ==
    /\ trading_signal = NoSignal
    /\ trading_signal' = _generate_signal(market.df, market.current_price)
    /\ UNCHANGED <<market, notStrategyVars>>

StrategyNext == GenerateSignal

StrategySpec == StrategyInit /\ [][StrategyNext]_vars

(***************************************************************************)
(* strategies/user_created/custom_scalping_user3.py on the tables of        *)
(* indicators.py.  A table is its length and the cells of its last two     *)
(* rows, by column name; values are whole numbers, volumes included.       *)
(***************************************************************************)
rsi_buy == 40
rsi_sell == 60

\* the cells of one bar: a value per indicator, whatever its column is called
Bar(rsi, macd, macd_signal, volume) ==
    [rsi |-> rsi, macd |-> macd, macd_signal |-> macd_signal,
     volume |-> volume]

\* a 15m table as the Data Fetcher delivers it: OHLCV columns only.  The
\* indicator values the engine would compute from its closes ride along in
\* bars; volume_mean is df['volume'].rolling(10).mean() at the last row.
Ohlcv(len, latest, previous, volume_mean) ==
    [len |-> len, bars |-> <<previous, latest>>, volume_mean |-> volume_mean,
     previous |-> [c \in {"volume"} |-> previous.volume],
     latest |-> [c \in {"volume"} |-> latest.volume]]

\* a new column holding, per row, the named value of the bar
WithColumn(df, column, value) ==
    [df EXCEPT
        !.previous = (column :> df.bars[1][value]) @@ @,
        !.latest = (column :> df.bars[2][value]) @@ @]

\* TechnicalIndicators.add_rsi, indicators.py 55-68: df['rsi']
add_rsi(df) == WithColumn(df, "rsi", "rsi")

\* TechnicalIndicators.add_macd, indicators.py 70-97
add_macd(df) ==
    WithColumn(WithColumn(df, "macd", "macd"), "macd_signal", "macd_signal")

\* TechnicalIndicators.add_all_indicators, indicators.py 21-53: a table of
\* fewer than 50 rows is returned as it came
add_all_indicators(df) ==
    IF df.len < 50 THEN df ELSE add_macd(add_rsi(df))

\* a table whose RSI column is called rsi_14, the name the strategy reads
\* (line 31); no function of the engine produces it
add_rsi_14(df) == add_macd(WithColumn(df, "rsi_14", "rsi"))

\* Series.get(key, default)
Get(row, key, default) == IF key \in DOMAIN row THEN row[key] ELSE default

\* CustomScalpingStrategy.analyze, lines 21-81, on the 15m table df; a
\* table of length 0 stands for a missing and for an empty one
CustomScalping_analyze(df, current_price) ==
    IF df.len < 2 THEN
        StrategySignal("HOLD", 0, "Insufficient data", current_price,
                       NoFloat, NoFloat)
    ELSE
        LET rsi == Get(df.latest, "rsi_14", 50)
            macd == Get(df.latest, "macd", 0)
            macd_signal == Get(df.latest, "macd_signal", 0)
            prev_macd == Get(df.previous, "macd", 0)
            prev_signal == Get(df.previous, "macd_signal", 0)
            volume == Get(df.latest, "volume", 0)
            avg_volume == df.volume_mean
            \* volume / avg_volume > 1.2, and 1 when the mean is not positive
            good_volume == avg_volume > 0 /\ 10 * volume > 12 * avg_volume
            buy == rsi < rsi_buy /\ prev_macd <= prev_signal
                                 /\ macd > macd_signal
            sell == ~buy /\ rsi > rsi_sell /\ prev_macd >= prev_signal
                                           /\ macd < macd_signal
            signal_type == IF buy /\ good_volume THEN "BUY"
                           ELSE IF sell /\ good_volume THEN "SELL"
                           ELSE "HOLD"
            confidence == IF buy \/ sell
                          THEN 50 + (IF good_volume THEN 20 ELSE 0)
                          ELSE 25
        IN  StrategySignal(
                signal_type, confidence,
                IF buy THEN "RSI oversold; MACD bullish crossover"
                ELSE IF sell THEN "RSI overbought; MACD bearish crossover"
                ELSE "RSI, MACD",
                current_price,
                IF signal_type = "BUY" THEN Rat(current_price * 995, 1000)
                ELSE IF signal_type = "SELL" THEN Rat(current_price * 1005, 1000)
                ELSE NoFloat,
                IF signal_type = "BUY" THEN Rat(current_price * 101, 100)
                ELSE IF signal_type = "SELL" THEN Rat(current_price * 99, 100)
                ELSE NoFloat)

ScalpingRsi == {35, 40, 50, 60, 65}
MacdLevels == {0, 1}
ScalpingVolumes == {12, 13}
VolumeMeans == {0, 10}
TableLengths == {0, 1, 49, 50}

ScalpingBars ==
    {Bar(rsi, macd, macd_signal, volume) :
        rsi \in ScalpingRsi, macd \in MacdLevels, macd_signal \in MacdLevels,
        volume \in ScalpingVolumes}

\* the bar before the latest: only its MACD cells are read
PreviousBars ==
    {Bar(50, macd, macd_signal, 12) :
        macd \in MacdLevels, macd_signal \in MacdLevels}

FetchedTables ==
    {Ohlcv(len, latest, previous, volume_mean) :
        len \in TableLengths, latest \in ScalpingBars,
        previous \in PreviousBars, volume_mean \in VolumeMeans}

\* what reaches the strategy: the engine's table, or one carrying rsi_14
ScalpingMarkets ==
    {[engine |-> TRUE, df |-> add_all_indicators(df), current_price |-> 100] :
        df \in FetchedTables}
    \cup {[engine |-> FALSE, df |-> add_rsi_14(df), current_price |-> 100] :
            df \in {t \in FetchedTables : t.len = 50}}

ScalpingInit ==
    /\ ApiIdle
    /\ TradeIdle
    /\ WalletIdle
    /\ LogIdle
    /\ CycleIdle
    /\ PurchaseIdle
    /\ market \in ScalpingMarkets
    /\ trading_signal = NoSignal

ScalpingAnalyze ==
    /\ trading_signal = NoSignal
    /\ trading_signal' = CustomScalping_analyze(market.df, market.current_price)
    /\ UNCHANGED <<market, notStrategyVars>>

ScalpingNext == ScalpingAnalyze

ScalpingSpec == ScalpingInit /\ [][ScalpingNext]_vars

(***************************************************************************)
(* bot.py and data_fetcher.py: TradingBot.start and the trading cycle it   *)
(* runs.  A cycle is one call of _execute_trading_cycle; what it did is    *)
(* kept in the variable cycle.  Frames are not looked into here: all_data  *)
(* maps each symbol to the set of timeframes it holds a frame for.         *)
(***************************************************************************)
MaxCycles == 2        \* cycles run by one TradingBot.start()

\* Config.TRADING_PAIRS in list order, and the strategy's timeframes
PairOrder == <<"BTC/USDT", "ETH/USDT">>
TIMEFRAMES == {"15m", "1h"}

\* data_fetcher.py 51-72: a timeframe gets a key only when fetch_ohlcv
\* returned candles; an error is caught per timeframe and leaves no key.
fetch_multi_timeframe_data(symbol, timeframes, candles) ==
    {timeframe \in timeframes : candles[<<symbol, timeframe>>]}

\* data_fetcher.py 98-114: every symbol asked for gets a key, whatever its
\* fetch returned
fetch_all_symbols_data(symbols, timeframes, candles) ==
    [symbol \in symbols |->
        fetch_multi_timeframe_data(symbol, timeframes, candles)]

\* base_strategy.py 132-139; the frames stored are never empty
validate_data(data) == data # {}

\* the built-in strategies' analyze(): HOLD on data that is not valid,
\* otherwise whatever the strategy concludes
analyze(data, conclusion) ==
    IF ~validate_data(data) THEN "HOLD" ELSE conclusion

\* signal_processor.py 56-77: "None" when analyze raised
process_symbol(data, conclusion) ==
    IF conclusion = "None" THEN "None" ELSE analyze(data, conclusion)

\* An exception raised inside the cycle: the step it is raised in, and for
\* step 4 the place in Config.TRADING_PAIRS of the symbol being handled.
NoFault == [step |-> "none", at |-> 0]
Fault(step, at) == [step |-> step, at |-> at]
StepNo == [monitor |-> 1, fetch |-> 2, indicators |-> 3, analyze |-> 4,
           summary |-> 5, none |-> 6]
Passed(step, fault) == StepNo[step] < StepNo[fault.step]

\* bot.py 197-199, 202-205: the symbols of step 4 that get as far as
\* process_symbol
Priced(all_data, prices) ==
    {k \in DOMAIN PairOrder :
        PairOrder[k] \in DOMAIN all_data /\ prices[PairOrder[k]]}

\* bot.py 165-174: "if not all_data" is true of the empty dict only
NoDataFetched(all_data) == DOMAIN all_data = {}

CycleRecord(monitored, fetched, all_data, skipped, indicators, analyzed, executed, raised) ==
    [ran |-> TRUE, monitored |-> monitored, fetched |-> fetched,
     all_data |-> all_data,
     skipped |-> skipped, indicators |-> indicators, analyzed |-> analyzed,
     executed |-> executed, raised |-> raised]

\* bot.py 144-258.  trading_pairs: self.trading_pairs; candles: whether
\* fetch_ohlcv returns candles, per symbol and timeframe; prices: whether
\* get_latest_price returns a price; conclusions: what the strategy makes of
\* a symbol; fault: the exception raised, if any.  The except clause at
\* 257-258 logs the exception and the call returns normally.
_execute_trading_cycle(trading_pairs, candles, prices, conclusions, fault) ==
    LET fetched == Passed("fetch", fault)
        all_data == IF fetched
                    THEN fetch_all_symbols_data(trading_pairs, TIMEFRAMES, candles)
                    ELSE [symbol \in {} |-> {}]
        skipped == fetched /\ NoDataFetched(all_data)
        on == fetched /\ ~skipped
        priced == IF on /\ Passed("indicators", fault)
                  THEN Priced(all_data, prices) ELSE {}
        struck == fault.step = "analyze" /\ fault.at \in priced
        handled == IF struck THEN {k \in priced : k < fault.at} ELSE priced
        signal == [k \in handled |->
                      process_symbol(all_data[PairOrder[k]],
                                     conclusions[PairOrder[k]])]
    IN  CycleRecord(
          Passed("monitor", fault),
          fetched,
          all_data,
          skipped,
          IF on /\ Passed("indicators", fault)
          THEN {st \in DOMAIN candles :
                   st[1] \in DOMAIN all_data /\ st[2] \in all_data[st[1]]}
          ELSE {},
          {PairOrder[k] : k \in handled},
          {PairOrder[k] : k \in {h \in handled :
                                    signal[h] \notin {"None", "HOLD"}}},
          \/ fault.step \in {"monitor", "fetch"}
          \/ on /\ fault.step \in {"indicators", "summary"}
          \/ struck)

\* where start() continues after a cycle: the cycle has caught its own
\* exception, so the caller goes on to the loop either way
AfterCycle_Propagates(raised) == IF raised THEN "done" ELSE "loop_test"

AfterCycle(raised) == "loop_test"

\* bot.py 118-122
start ==
    /\ bot_loop.pc = "start"
    /\ bot_loop' = [bot_loop EXCEPT !.running = TRUE, !.pc = "cycle"]
    /\ UNCHANGED <<cycle, notCycleVars>>

\* bot.py 125 and 137: one call of _execute_trading_cycle; errors counts the
\* "Error in trading cycle" lines it has logged (258)
run_cycle(candles, prices, conclusions, fault) ==
    /\ bot_loop.pc = "cycle"
    /\ bot_loop.execution_count < MaxCycles
    /\ cycle' = _execute_trading_cycle(bot_loop.trading_pairs, candles,
                                       prices, conclusions, fault)
    /\ bot_loop' = [bot_loop EXCEPT
           !.execution_count = @ + 1,
           !.errors = IF cycle'.raised THEN @ + 1 ELSE @,
           !.pc = AfterCycle(cycle'.raised)]
    /\ UNCHANGED notCycleVars

\* bot.py 128: while self.running
loop_test ==
    /\ bot_loop.pc = "loop_test"
    /\ bot_loop' = [bot_loop EXCEPT
           !.pc = IF bot_loop.running THEN "sleep" ELSE "done"]
    /\ UNCHANGED <<cycle, notCycleVars>>

\* bot.py 134-137 and 382-392: the sleep ends when the interval is over or
\* the flag is cleared; a cycle follows only if the flag is still set
_sleep_with_interrupt ==
    /\ bot_loop.pc = "sleep"
    /\ bot_loop' = [bot_loop EXCEPT
           !.pc = IF bot_loop.running THEN "cycle" ELSE "loop_test"]
    /\ UNCHANGED <<cycle, notCycleVars>>

\* bot.py 365-374, called from the request thread
stop ==
    /\ bot_loop.pc \notin {"idle", "start"}
    /\ bot_loop.running
    /\ bot_loop' = [bot_loop EXCEPT !.running = FALSE]
    /\ UNCHANGED <<cycle, notCycleVars>>

\* api_server.py 278: [coin] or Config.TRADING_PAIRS
BotTradingPairs == {{PairOrder[k] : k \in DOMAIN PairOrder}, {"ETH/USDT"}}

CandleOutcomes ==
    [{PairOrder[k] : k \in DOMAIN PairOrder} \X TIMEFRAMES -> BOOLEAN]

PriceOutcomes == [{PairOrder[k] : k \in DOMAIN PairOrder} -> BOOLEAN]

Conclusions ==
    [{PairOrder[k] : k \in DOMAIN PairOrder} -> {"None", "HOLD", "BUY"}]

Faults ==
    {NoFault} \cup {Fault(step, 0) : step \in {"monitor", "fetch", "indicators", "summary"}}
              \cup {Fault("analyze", k) : k \in DOMAIN PairOrder}

CycleInit ==
    /\ ApiIdle
    /\ TradeIdle
    /\ WalletIdle
    /\ LogIdle
    /\ StrategyIdle
    /\ PurchaseIdle
    /\ bot_loop \in {[NoLoop EXCEPT !.pc = "start", !.trading_pairs = pairs] :
                        pairs \in BotTradingPairs}
    /\ cycle = NoCycle

\* the strategy is asked about a symbol only when its price is known
Asked(prices, conclusions) ==
    \A symbol \in DOMAIN prices : ~prices[symbol] => conclusions[symbol] = "HOLD"

RunCycle ==
    \E candles \in CandleOutcomes, prices \in PriceOutcomes,
       conclusions \in Conclusions, fault \in Faults :
        /\ Asked(prices, conclusions)
        /\ run_cycle(candles, prices, conclusions, fault)

CycleNext == start \/ RunCycle \/ loop_test \/ _sleep_with_interrupt \/ stop

CycleSpec == CycleInit /\ [][CycleNext]_vars

\* The same loop with the venue answering alike for every symbol and
\* timeframe: every fault, with data and without, with a signal to execute
\* and without.
Alike(f) == \A x, y \in DOMAIN f : f[x] = f[y]

RunCycleAlike ==
    \E candles \in {f \in CandleOutcomes : Alike(f)},
       conclusions \in {f \in Conclusions : Alike(f) /\ f[PairOrder[1]] # "None"},
       fault \in Faults :
        run_cycle(candles, [symbol \in DOMAIN conclusions |-> TRUE],
                  conclusions, fault)

WorkerNext == start \/ RunCycleAlike \/ loop_test \/ _sleep_with_interrupt

\* the worker thread is scheduled as long as it has a step to take
FairCycleSpec ==
    CycleInit /\ [][WorkerNext \/ stop]_vars /\ WF_vars(WorkerNext)

\* the requests sent to POST /start: user 1 sends every combination, user 2
\* only requests for all coins at full capital
StartInputs ==
    {i \in Users \X RequestStrategies \X RequestCoins \X RequestCapitals :
        i[1] = 1 \/ (i[3] = None /\ i[4] = 100 * CapitalScale)}

StartRequest ==
    \E i \in StartInputs : start_bot(i[1], i[2], i[3], i[4])

StopRequest ==
    \E user_id \in Users, dbFault \in {"none", "query", "commit"} :
        stop_bot(user_id, dbFault)

ApiNext ==
    \/ StartRequest
    \/ StopRequest
    \/ \E w \in 1..MaxRequests : WorkerStep(w)

(***************************************************************************)
(* The strategy catalog: StrategyDB.purchase_strategy.                     *)
(***************************************************************************)
MaxPurchases == 3

\* the strategy ids a purchase names: the catalog's and one it does not hold
PurchaseIds == {"rsi-001", "mkt-001", "mkt-002", "gone-001"}
PurchasePrices == {10, 20}

\* INSERT ... ON CONFLICT (user_id, strategy_id) DO NOTHING
GrantPurchased(rows, user_id, strategy_id, price) ==
    IF \E r \in rows : r.user_id = user_id /\ r.strategy_id = strategy_id
    THEN rows
    ELSE rows \cup {UserStrategy(user_id, strategy_id, "purchased", price)}

PurchaseReturn(ok) == [op |-> "purchase_strategy", ok |-> ok]

\* StrategyDB.purchase_strategy in one transaction; db is false when a
\* statement or the commit raises, and the transaction is rolled back.
purchase_strategy(user_id, strategy_id, price, db) ==
    /\ purchases < MaxPurchases
    /\ purchases' = purchases + 1
    /\ IF ~db
       THEN /\ purchased' = PurchaseReturn(FALSE)
            /\ UNCHANGED <<strategies, user_strategies>>
       ELSE IF strategy_id \notin DOMAIN strategies
       THEN /\ purchased' = PurchaseReturn(FALSE)
            /\ UNCHANGED <<strategies, user_strategies>>
       ELSE IF strategies[strategy_id].type # "marketplace"
       THEN /\ purchased' = PurchaseReturn(FALSE)
            /\ UNCHANGED <<strategies, user_strategies>>
       ELSE /\ user_strategies' =
                    GrantPurchased(user_strategies, user_id, strategy_id,
                                   price)
            /\ strategies' =
                    [strategies EXCEPT ![strategy_id].total_purchases = @ + 1]
            /\ purchased' = PurchaseReturn(TRUE)
    /\ UNCHANGED notPurchaseVars

PurchaseInit ==
    /\ ApiIdle
    /\ TradeIdle
    /\ WalletIdle
    /\ LogIdle
    /\ StrategyIdle
    /\ CycleIdle
    /\ PurchaseIdle

PurchaseNext ==
    \E user_id \in Users, strategy_id \in PurchaseIds,
       price \in PurchasePrices, db \in BOOLEAN :
        purchase_strategy(user_id, strategy_id, price, db)

PurchaseSpec == PurchaseInit /\ [][PurchaseNext]_vars

Init == ApiInit /\ TradeIdle /\ WalletIdle /\ LogIdle /\ StrategyIdle /\ CycleIdle
    /\ PurchaseIdle

Next == ApiNext

Spec == Init /\ [][Next]_vars

FairSpec ==
    Spec /\ \A w \in 1..MaxRequests :
                WF_vars(WorkerStep(w))

\* A worker thread is alive from Thread.start() until its function returns.
Alive(w) == workers[w].pc # "done"

AliveWorkers == {w \in DOMAIN workers : Alive(w)}

TypeOK ==
    /\ bot_instance \in 0..Len(bots)
    /\ current_execution_id \in 0..Len(executions)
    /\ Len(bots) = Len(workers)
    /\ \A u \in Users : Cardinality(RunningRows(u)) <= 1

(***************************************************************************)
(* Claims about the Trading Control API and its worker threads.            *)
(***************************************************************************)
\* the step is POST /start with the inputs i
IsStart(i) == start_bot(i[1], i[2], i[3], i[4])

\* the step serves a POST /start, respectively a POST /stop
StartStep == served' = served + 1 /\ resp'.op = "start"
StopStep == served' = served + 1 /\ resp'.op = "stop"

\* C1: at most one worker thread is alive at any time, whatever the
\* interleaving of /start, /stop and the workers' own steps.
C1_AtMostOneWorkerAlive == Cardinality(AliveWorkers) <= 1

\* C2 as stated: whenever the caller has a row in status running, /start is
\* rejected with the error that names that row, inserts nothing and launches
\* nothing.
C2_AnyStartNamesRunningRow ==
    [][StartStep => \A i \in StartInputs :
          (RunningRows(i[1]) # {} /\ IsStart(i)) =>
              /\ resp'.status = "error"
              /\ resp'.error = "user_has_running_bot"
              /\ resp'.existing_id \in RunningRows(i[1])
              /\ executions' = executions
              /\ workers' = workers]_vars

\* C2 amended: whenever the caller has a row in status running, /start does
\* not succeed, inserts no row and launches no worker, whatever the in-memory
\* flag; when the request also passes the input rules and the wallet gate and
\* the lookup of the row answers, the request is rejected with the error that
\* names that row's id.
C2_RunningRowBlocksStart ==
    [][StartStep => \A i \in StartInputs :
          (RunningRows(i[1]) # {} /\ IsStart(i)) =>
              /\ resp'.status # "success"
              /\ executions' = executions
              /\ workers' = workers
              /\ (/\ i[2] \in get_user_strategies(i[1])
                  /\ (i[3] = None \/ i[3] \in TRADING_PAIRS)
                  /\ i[4] >= 1 * CapitalScale /\ i[4] <= 100 * CapitalScale
                  /\ check_wallet_connection(i[1]).connected
                  /\ resp'.status # "http_500")
                 => /\ resp'.status = "error"
                    /\ resp'.error = "user_has_running_bot"
                    /\ resp'.existing_id \in RunningRows(i[1])]_vars

\* C2 witness: the restart case; a row is running, the in-memory flag is false,
\* no worker was ever launched, and the start was refused naming the row.
C2_Witness ==
    /\ resp.op = "start" /\ resp.error = "user_has_running_bot"
    /\ resp.existing_id \in RunningRows(1)
    /\ ~bot_status.running /\ workers = <<>> /\ Len(executions) = 1

\* C3: once /stop has succeeded for an execution, the worker that runs that
\* execution eventually leaves its loop and ends.
C3_StopEventuallyEndsWorker ==
    \A w \in 1..MaxRequests :
        (/\ w \in DOMAIN workers
         /\ workers[w].bot_execution_id \in DOMAIN executions
         /\ executions[workers[w].bot_execution_id].user_id = workers[w].user_id
         /\ executions[workers[w].bot_execution_id].status = "stopped"
         /\ resp.op = "stop" /\ resp.status = "success")
        ~> (w \in DOMAIN workers /\ workers[w].pc = "done")

\* C7: a /start that returns success has committed a running row owned by the
\* caller, and the worker it launched runs with that row's id.
C7_SuccessMeansRowCommitted ==
    [][StartStep => \A i \in StartInputs :
          (IsStart(i) /\ resp'.status = "success") =>
              /\ Len(executions') = Len(executions) + 1
              /\ executions'[Len(executions')].user_id = i[1]
              /\ executions'[Len(executions')].status = "running"
              /\ Len(workers') = Len(workers) + 1
              /\ workers'[Len(workers')].bot_execution_id = Len(executions')]_vars

\* the execution /stop resolves: the tracked id when set, else the caller's
\* running row
ResolvedExecution(user_id) ==
    IF current_execution_id # NoneId THEN current_execution_id
    ELSE FirstRunning(user_id)

BusinessRejections ==
    {"wallet_not_connected", "user_has_running_bot", "bot_already_running"}

\* C9: a /start rejected for a business-rule conflict inserts no row, launches
\* no worker and leaves every field of the status record as it was.
C9_RejectionChangesNothing ==
    [][StartStep => \A i \in StartInputs :
          (IsStart(i) /\ resp'.error \in BusinessRejections) =>
              /\ executions' = executions
              /\ workers' = workers
              /\ bot_status' = bot_status]_vars

\* C10: a /start that breaks an input rule is answered with the error of the
\* first broken rule in the order strategy, coin, capital, and changes neither
\* the rows, the workers, the status record, the tracked execution id nor the
\* bot and thread handles.
C10_ValidationFailureNoEffect ==
    [][StartStep => \A i \in StartInputs :
          LET strategyBad == i[2] \notin get_user_strategies(i[1])
              coinBad == i[3] # None /\ i[3] \notin TRADING_PAIRS
              capitalBad == i[4] < 1 * CapitalScale \/ i[4] > 100 * CapitalScale
              capitalErrors == {"capital_not_positive", "capital_over_100",
                                "capital_below_1"}
          IN  ((strategyBad \/ coinBad \/ capitalBad) /\ IsStart(i)) =>
                  /\ resp'.status = "error"
                  /\ strategyBad => resp'.error = "strategy"
                  /\ (~strategyBad /\ coinBad) => resp'.error = "coin"
                  /\ (~strategyBad /\ ~coinBad) => resp'.error \in capitalErrors
                  /\ UNCHANGED <<executions, workers, bots, bot_status,
                                 current_execution_id, bot_instance,
                                 bot_thread>>]_vars

\* C10 witness: after a worker has published its status, a request with a
\* valid strategy and an unknown coin was refused for the coin.
C10_Witness ==
    /\ resp.op = "start" /\ resp.error = "coin"
    /\ bot_status.running /\ Len(workers) = 1

(***************************************************************************)
(* Claims about the Signal Processor and the position-monitoring step.     *)
(***************************************************************************)
ExecuteInputs == TRADING_PAIRS \X Signals \X OrderSizes

\* the step is execute_signal with the inputs i
IsExecute(i) == execute_signal(i[1], i[2], i[3])

ExecuteStep == calls' = calls + 1 /\ ret'.op = "execute_signal"
MonitorStep == calls' = calls + 1 /\ ret'.op = "_monitor_positions"

\* the orders of a symbol the venue accepted, oldest first
AcceptedOrders(log, symbol) ==
    SelectSeq(log, LAMBDA e : e.symbol = symbol /\ e.accepted)

\* the step sent a market sell of the symbol to the venue
SoldAtVenue(symbol) ==
    \E k \in (Len(demo_orders) + 1)..Len(demo_orders') :
        demo_orders'[k].symbol = symbol /\ demo_orders'[k].side = "sell"

\* C4: in a monitoring step every open position whose ticker price is at or
\* below its stop loss, or else at or above its take profit, is sold at the
\* venue and closed; any other position with a price stays open and has its
\* current price refreshed.
C4_BoundaryPositionsForceSold ==
    [][MonitorStep => \A tick \in Tickers :
        _monitor_positions(tick) =>
            \A k \in DOMAIN position_rows :
                LET row == position_rows[k]
                    price == tick[row.symbol]
                IN  (row.bot_execution_id = ManagerExecution
                        /\ price # NoneId) =>
                    IF \/ row.stop_loss # NoneId /\ price <= row.stop_loss
                       \/ row.take_profit # NoneId /\ price >= row.take_profit
                    THEN /\ PositionIds(position_rows', ManagerExecution,
                                        row.symbol) = {}
                         /\ SoldAtVenue(row.symbol)
                    ELSE /\ k \in DOMAIN position_rows'
                         /\ position_rows'[k].symbol = row.symbol
                         /\ position_rows'[k].current_price = price
                         /\ position_rows'[k].quantity = row.quantity]_vars

\* the position gate as the claims state it
Blocked(i) ==
    \/ i[2].signal = "BUY" /\ positions[i[1]].side = "buy"
    \/ i[2].signal = "SELL" /\ positions[i[1]].side \in {None, "sell"}

Gated(i) ==
    \/ i[2].signal = "HOLD"
    \/ i[2].confidence < 50
    \/ OrderSize(i[2], i[3]) <= 0

\* the inputs that are a BUY or a SELL at confidence exactly 50
FiftyInputs ==
    {i \in ExecuteInputs :
        i[2].signal \in {"BUY", "SELL"} /\ i[2].confidence = 50}

\* the order the step appended to the venue's log is the one input i asks for
SentFor(i) ==
    /\ Len(demo_orders') = Len(demo_orders) + 1
    /\ demo_orders'[Len(demo_orders')].symbol = i[1]
    /\ demo_orders'[Len(demo_orders')].side =
            IF i[2].signal = "BUY" THEN "buy" ELSE "sell"
    /\ demo_orders'[Len(demo_orders')].amount = OrderSize(i[2], i[3])

\* C6: nothing is sent to the venue for a HOLD signal, for a confidence below
\* 50 or for a quantity that is not positive; a BUY or SELL at confidence
\* exactly 50 with a positive quantity that the position gate lets through is
\* sent, with that quantity.
C6_GatesBlockOrders ==
    [][ExecuteStep =>
        /\ demo_orders' # demo_orders =>
            \A i \in ExecuteInputs : Gated(i) => ~IsExecute(i)
        /\ \A i \in FiftyInputs :
            (~SentFor(i) /\ ~Blocked(i) /\ OrderSize(i[2], i[3]) > 0)
                => ~IsExecute(i)]_vars

\* C6 witness: an order at confidence exactly 50 went to the venue and was
\* accepted.
C6_Witness ==
    \E s \in TRADING_PAIRS :
        /\ positions[s].side = "buy" /\ positions[s].confidence = 50
        /\ Len(AcceptedOrders(demo_orders, s)) = 1
        /\ ret.op = "execute_signal" /\ ret.success

\* C11: the capital check of POST /start refuses a percentage that is zero or
\* negative, above 100, or strictly between 0 and 1, each with its own
\* message, and lets every percentage from 1 to 100 through, both ends
\* included: a request whose strategy and coin are valid is answered with a
\* capital error exactly when its capital is outside [1, 100].
C11_CapitalRange ==
    [][StartStep => \A i \in StartInputs :
          (/\ i[2] \in get_user_strategies(i[1])
           /\ i[3] = None \/ i[3] \in TRADING_PAIRS
           /\ IsStart(i)) =>
              /\ i[4] <= 0 => resp'.error = "capital_not_positive"
              /\ i[4] > 100 * CapitalScale => resp'.error = "capital_over_100"
              /\ (i[4] > 0 /\ i[4] < 1 * CapitalScale) =>
                     resp'.error = "capital_below_1"
              /\ (i[4] >= 1 * CapitalScale /\ i[4] <= 100 * CapitalScale) =>
                     resp'.error \notin {"capital_not_positive",
                                         "capital_over_100", "capital_below_1"}
              /\ (i[4] \in {1 * CapitalScale, 100 * CapitalScale}
                      /\ check_wallet_connection(i[1]).connected
                      /\ RunningRows(i[1]) = {} /\ ~bot_status.running
                      /\ resp'.status # "http_500") =>
                     resp'.status = "success"]_vars

\* C11 witness: a request with a valid strategy and coin was refused because
\* its capital lies strictly between 0 and 1, after an accepted /start.
C11_Witness ==
    /\ Len(workers) >= 1
    /\ resp.op = "start" /\ resp.error = "capital_below_1"

\* the caller's most recently created active binance row exists, can be read
\* and has connection_status connected
LatestActiveConnected(user_id) ==
    /\ wallet[user_id].reachable
    /\ \E k \in DOMAIN wallet[user_id].rows :
          LET row == wallet[user_id].rows[k]
          IN  /\ row.exchange_name = "binance" /\ row.is_active
              /\ row.connection_status = "connected"
              /\ \A j \in DOMAIN wallet[user_id].rows :
                     (j > k /\ wallet[user_id].rows[j].exchange_name = "binance")
                         => ~wallet[user_id].rows[j].is_active

\* C12: POST /start gets past the wallet gate only when the caller's most
\* recently created active binance row has connection_status connected; with
\* no such row, with any other status, or when the wallet database cannot be
\* read, the request is rejected, no execution row is created and no worker is
\* launched, and a request that passed the input rules is told that the
\* wallet is not connected.
C12_WalletGate ==
    [][StartStep => \A i \in StartInputs :
          (~LatestActiveConnected(i[1]) /\ IsStart(i)) =>
              /\ resp'.status = "error"
              /\ executions' = executions
              /\ workers' = workers
              /\ current_execution_id' = current_execution_id
              /\ (/\ i[2] \in get_user_strategies(i[1])
                  /\ i[3] = None \/ i[3] \in TRADING_PAIRS
                  /\ i[4] >= 1 * CapitalScale /\ i[4] <= 100 * CapitalScale) =>
                     resp'.error = "wallet_not_connected"]_vars

\* C12 witness: user 1 holds two active binance rows, the older connected and
\* the newer in error, and a /start was refused at the wallet gate.
C12_Witness ==
    /\ resp.op = "start" /\ resp.error = "wallet_not_connected"
    /\ wallet[1].reachable /\ Len(wallet[1].rows) = 2
    /\ wallet[1].rows[1].connection_status = "connected"
    /\ wallet[1].rows[2].is_active

(***************************************************************************)
(* Claims about the Trade Lifecycle Manager.                               *)
(***************************************************************************)
\* the step is fill_order on the order id, committing, with the fill price
\* and the levels of f
IsFill(id, f) == fill_order(id, f[1], f[2][1], f[2][2], TRUE)

FillStep == calls' = calls + 1 /\ ret'.op = "fill_order"
PartialFillStep == calls' = calls + 1 /\ ret'.op = "partial_fill"

\* the statuses an order never leaves
FinalStatuses == {"FILLED", "CANCELLED", "FAILED"}

\* C13: no operation of the manager changes the status of an order that is
\* FILLED or CANCELLED (or FAILED), and a status only moves forward: PENDING,
\* then PARTIALLY_FILLED, then one final status.
C13_FinalStatusStays ==
    [][\A k \in DOMAIN orders :
          /\ orders[k].status \in FinalStatuses
                => orders'[k].status = orders[k].status
          /\ orders[k].status = "PARTIALLY_FILLED"
                => orders'[k].status # "PENDING"]_vars

C15_OnePositionPerSymbol ==
    \A k, j \in DOMAIN position_rows :
        (/\ position_rows[k].bot_execution_id = position_rows[j].bot_execution_id
         /\ position_rows[k].symbol = position_rows[j].symbol) => k = j

\* C15 witness: after a BUY fill of 2 on top of its position of 1, the
\* manager's execution holds one row of 3 for the symbol, next to the row of
\* another execution for the same symbol.
C15_Witness ==
    /\ ret.op = "fill_order"
    /\ \E k, j \in DOMAIN position_rows :
          /\ position_rows[k].bot_execution_id = ManagerExecution
          /\ position_rows[j].bot_execution_id # ManagerExecution
          /\ position_rows[k].symbol = position_rows[j].symbol
          /\ position_rows[k].quantity = 3

\* C16: a BUY fill for a symbol the execution already holds keeps the single
\* row, adds the quantities, sets the entry price to the quantity-weighted
\* average of the old entry price and the fill price, and leaves stop loss
\* and take profit as they were; 1 at 100 and then 1 at 110 make 2 at 105.
C16_AddOnFillAverages ==
    [][FillStep => \A id \in DOMAIN orders :
          LET order == orders[id]
              k == FirstPosition(position_rows, ManagerExecution, order.symbol)
              row == position_rows[k]
              after == position_rows'[k]
          IN  (order.side = "BUY" /\ k # NoneId) =>
              \A f \in FillPrices \X FillLevels :
                  LET p == IF f[1] # NoneId THEN f[1] ELSE order.price
                  IN  (p # NoneId /\ IsFill(id, f)) =>
                      /\ Len(position_rows') = Len(position_rows)
                      /\ after.quantity = row.quantity + order.quantity
                      /\ after.entry_price[1] * row.entry_price[2]
                                * after.quantity
                            = (row.entry_price[1] * row.quantity
                                 + p * order.quantity * row.entry_price[2])
                              * after.entry_price[2]
                      /\ after.stop_loss = row.stop_loss
                      /\ after.take_profit = row.take_profit
                      /\ (/\ row.quantity = 1 /\ row.entry_price = <<100, 1>>
                          /\ order.quantity = 1 /\ p = 110) =>
                             /\ after.quantity = 2
                             /\ after.entry_price = <<105, 1>>
                      /\ \A j \in DOMAIN position_rows :
                             j # k => position_rows'[j] = position_rows[j]]_vars

\* C16 witness: the position opened as 1 at 100 with levels 95 and 120 has
\* become 2 at 105 with the same levels.
C16_Witness ==
    \E k \in DOMAIN position_rows :
        /\ position_rows[k].bot_execution_id = ManagerExecution
        /\ position_rows[k].quantity = 2
        /\ position_rows[k].entry_price = <<105, 1>>
        /\ position_rows[k].stop_loss = 95 /\ position_rows[k].take_profit = 120

\* C17: a SELL fill of quantity q at price x on an existing position appends
\* exactly one trade with pnl = (x - entry_price) * q and result PROFIT
\* exactly when pnl > 0, deletes the position when q is at least its
\* quantity and otherwise takes q off it; with no position for the symbol
\* nothing is appended and no position changes.
C17_CloseRecordsTrade ==
    [][FillStep => \A id \in DOMAIN orders :
          LET order == orders[id]
              k == FirstPosition(position_rows, ManagerExecution, order.symbol)
              row == position_rows[k]
              q == order.quantity
              trade == trade_history'[Len(trade_history')]
          IN  order.side = "SELL" =>
              \A f \in FillPrices \X FillLevels :
                  LET x == IF f[1] # NoneId THEN f[1] ELSE order.price
                  IN  IsFill(id, f) =>
                      IF k = NoneId
                      THEN /\ trade_history' = trade_history
                           /\ position_rows' = position_rows
                      ELSE x # NoneId =>
                           /\ Len(trade_history') = Len(trade_history) + 1
                           /\ SubSeq(trade_history', 1, Len(trade_history))
                                  = trade_history
                           /\ trade.symbol = order.symbol
                           /\ trade.quantity = q
                           /\ trade.sell_price = x
                           /\ trade.buy_price = row.entry_price
                           /\ trade.pnl[1] * row.entry_price[2]
                                  = (x * row.entry_price[2]
                                       - row.entry_price[1])
                                    * q * trade.pnl[2]
                           /\ trade.result = "PROFIT" <=> trade.pnl[1] > 0
                           /\ trade.result \in {"PROFIT", "LOSS"}
                           /\ IF q >= row.quantity
                              THEN /\ Len(position_rows')
                                          = Len(position_rows) - 1
                                   /\ PositionIds(position_rows',
                                          ManagerExecution, order.symbol) = {}
                              ELSE /\ Len(position_rows') = Len(position_rows)
                                   /\ position_rows'[k].quantity
                                          = row.quantity - q
                                   /\ position_rows'[k].entry_price
                                          = row.entry_price]_vars

\* C17 witness: a position bought at 100 was sold at 100, quantity 1: the
\* trade has pnl 0 and result LOSS and the position is gone.
C17_Witness ==
    /\ Len(trade_history) = 1
    /\ trade_history[1].buy_price = <<100, 1>>
    /\ trade_history[1].sell_price = 100 /\ trade_history[1].quantity = 1
    /\ trade_history[1].pnl = <<0, 1>> /\ trade_history[1].result = "LOSS"
    /\ PositionIds(position_rows, ManagerExecution, "BTC/USDT") = {}

\* C18: partial_fill with an increment q on an order on file with cumulative
\* filled quantity f sets the filled quantity to f + q and the status to
\* FILLED exactly when f + q reaches the order's quantity, PARTIALLY_FILLED
\* otherwise.
C18_PartialFillAccumulates ==
    [][PartialFillStep => \A id \in DOMAIN orders, fill \in PartialFills :
          partial_fill(id, fill[1], fill[2]) =>
              /\ orders'[id].filled_quantity
                    = orders[id].filled_quantity + fill[1]
              /\ orders'[id].status =
                    IF orders[id].filled_quantity + fill[1]
                          >= orders[id].quantity
                    THEN "FILLED" ELSE "PARTIALLY_FILLED"]_vars

\* C19: after any sequence of connect and disconnect requests, interleaved
\* connects included, a user has at most one active Binance row.
C19_OneActiveConnection ==
    \A user_id \in Users : Cardinality(ActiveConnections(user_id)) <= 1

\* the status the venue failure is specified to produce
SpecifiedStatus(error) ==
    IF IsInstance(error, "AuthenticationError") THEN 401
    ELSE IF IsInstance(error, "RequestTimeout") THEN 504
    ELSE IF \/ IsInstance(error, "DDoSProtection")
            \/ IsInstance(error, "RateLimitExceeded") THEN 429
    ELSE IF \/ IsInstance(error, "NetworkError")
            \/ IsInstance(error, "ExchangeNotAvailable") THEN 503
    ELSE 500

BalancesStep == http'.op = "balances" /\ handlers' # handlers

\* C20: GET /binance/balances answers an authentication failure with 401, a
\* network or exchange-unavailable failure with 503, a request timeout with
\* 504, a rate-limit or DDoS-protection failure with 429 and any other
\* failure with 500.
C20_BalancesErrorStatus ==
    [][BalancesStep =>
        \A h \in DOMAIN handlers, error \in VenueErrors :
            balances_fetched(h, error) =>
                http'.status_code = SpecifiedStatus(error)]_vars

\* the row of the user created last
LatestConnection(userId) ==
    CHOOSE id \in UserConnections(userId) :
        \A other \in UserConnections(userId) : other <= id

CredentialsStep == http'.op = "credentials"

\* C23: GET /binance/credentials returns the key and secret of the user's
\* most recently created row, active or not, and 404 when there is no row.
C23_CredentialsOfLatestRow ==
    [][CredentialsStep =>
        \A userId \in Users \cup {3} :
            get_binance_credentials(userId) =>
                IF UserConnections(userId) = {}
                THEN http'.status_code = 404
                ELSE /\ http'.status_code = 200
                     /\ http'.apiKey =
                          wallet_connections[LatestConnection(userId)]
                              .encrypted_api_key
                     /\ http'.secretKey =
                          wallet_connections[LatestConnection(userId)]
                              .encrypted_secret_key]_vars

ConnectAnswered == http'.op = "connect" /\ wallet_connections' # wallet_connections

\* what GET /binance/connection-status reports for the user
ReportsConnected(user_id) == UsableConnections(user_id) # {}

\* C21: when the validation of a connect fails with an authentication error
\* the request returns 401, a row of the user is stored with status 'error'
\* and the error text, and connection-status reports connected=false from
\* then until a later connect succeeds.
C21_AuthFailureStored ==
    [][/\ ConnectAnswered =>
            \A h \in DOMAIN handlers :
                (/\ handlers[h].op = "connect"
                 /\ connect_validated(h, "AuthenticationError")) =>
                    \A user_id \in {handlers[h].user_id} :
                        /\ http'.status_code = 401
                        /\ \E id \in DOMAIN wallet_connections' :
                              /\ wallet_connections'[id].user_id = user_id
                              /\ wallet_connections'[id].connection_status =
                                    "error"
                              /\ wallet_connections'[id].last_error =
                                    "AuthenticationError"
                        /\ ~ReportsConnected(user_id)'
       /\ \A user_id \in Users :
            (/\ ~ReportsConnected(user_id)
             /\ ~(http'.op = "connect" /\ http'.status_code = 200
                  /\ handlers' # handlers)) =>
                ~ReportsConnected(user_id)']_vars

DisconnectStep == http'.op = "disconnect" /\ handlers' # handlers

\* C22: a disconnect leaves no Binance row of the user active, keeps every
\* row (is_active false, status 'disconnected'), and changes no row when
\* none was active; from then until a connect commits, the user has no
\* active row, connection-status reports connected=false and balances
\* answers 401.
C22_DisconnectDeactivates ==
    [][/\ DisconnectStep =>
            \A user_id \in Users :
                disconnect_from_binance(user_id) =>
                    /\ ActiveConnections(user_id)' = {}
                    /\ Len(wallet_connections') = Len(wallet_connections)
                    /\ \A id \in DOMAIN wallet_connections :
                          wallet_connections'[id] =
                            IF id \in ActiveConnections(user_id)
                            THEN [wallet_connections[id] EXCEPT
                                    !.is_active = FALSE,
                                    !.connection_status = "disconnected"]
                            ELSE wallet_connections[id]
                    /\ ActiveConnections(user_id) = {} =>
                          wallet_connections' = wallet_connections
       /\ \A user_id \in Users :
            ActiveConnections(user_id) = {} =>
                /\ ~(http'.op = "connect" /\ handlers' # handlers) =>
                      ActiveConnections(user_id)' = {}
                /\ get_connection_status(user_id) => ~http'.connected
                /\ get_balances(user_id) => http'.status_code = 401]_vars

\* a row connected in this run has been disconnected
C22_Witness ==
    /\ http.op = "disconnect"
    /\ \E id \in DOMAIN wallet_connections :
          /\ wallet_connections[id].user_id = 1
          /\ wallet_connections[id].encrypted_api_key = "key-B"
          /\ ~wallet_connections[id].is_active
          /\ wallet_connections[id].connection_status = "disconnected"

\* the environment each value sent stands for, "400" for a rejected one
AliasCases ==
    {<<NoText, "production">>,
     <<production, "production">>, <<prod, "production">>,
     <<mainnet, "production">>, <<live, "production">>,
     <<testnet, "testnet">>, <<sandbox, "testnet">>, <<demo, "testnet">>,
     <<<<" ", "P", "r", "o", "d", " ">>, "production">>,
     <<<<"L", "I", "V", "E">>, "production">>,
     <<<<"\t", "T", "e", "s", "t", "N", "e", "t", "\n">>, "testnet">>,
     <<<<"D", "e", "m", "o", " ">>, "testnet">>,
     <<<<"s", "t", "a", "g", "i", "n", "g">>, "400">>,
     <<<<"p", "r", "o", " ", "d">>, "400">>,
     <<<<" ", " ">>, "400">>}

\* as claimed: the empty str is a value like any other that is no alias
ClaimedCases == AliasCases \cup {<<<<>>, "400">>}

\* as amended: the empty str counts as a missing value
AmendedCases == AliasCases \cup {<<<<>>, "production">>}

ConnectReceived ==
    /\ Len(handlers') = Len(handlers) + 1
    /\ \/ handlers'[Len(handlers')].op = "connect"
       \/ http'.op = "connect" /\ http'.status_code = 400

\* what a connect request with this environment has to do up to the await
HandledAs(request, expected) ==
    IF expected = "400"
    THEN /\ http' = HttpResponse("connect", 400, FALSE, None)
         /\ handlers'[Len(handlers')] = HandlerDone
         /\ wallet_connections' = wallet_connections
    ELSE (request.apiKey.length >= 10 /\ request.secretKey.length >= 10) =>
            /\ handlers'[Len(handlers')].op = "connect"
            /\ handlers'[Len(handlers')].edited.exchange_environment =
                    expected

\* C24 as claimed: every alias of production and of testnet is mapped to
\* its environment, whatever its case and surrounding blanks, a missing
\* value to production, and every other value is rejected with 400 before
\* any row is created or changed.
C24_EnvironmentNormalized ==
    [][ConnectReceived =>
        \A c \in ConnectCalls, case \in ClaimedCases :
            (c[2].environment = case[1] /\ connect_to_binance(c[1], c[2]))
                => HandledAs(c[2], case[2])]_vars

\* C24 as amended: the same, with a missing or empty value mapped to
\* production.
C24_EmptyMeansProduction ==
    [][ConnectReceived =>
        \A c \in ConnectCalls, case \in AmendedCases :
            (c[2].environment = case[1] /\ connect_to_binance(c[1], c[2]))
                => HandledAs(c[2], case[2])]_vars

\* a connect of user 1 reached the await with the testnet environment,
\* which only an alias of testnet produces
C24_Witness ==
    \E h \in DOMAIN handlers :
        /\ handlers[h].op = "connect"
        /\ handlers[h].user_id = 1
        /\ handlers[h].edited.exchange_environment = "testnet"
        /\ handlers[h].edited.encrypted_api_key = "key-A"

LogQuiet == \A t \in LogThreads : log_pc[t] = "idle"

Smaller(a, b) == IF a < b THEN a ELSE b

\* C25: after n appends the buffer holds exactly the most recent
\* min(n, 1000) entries in append order, the oldest evicted first.
C25_BufferKeepsLatest ==
    LogQuiet =>
        /\ Len(bot_logs) = Smaller(appended, MAX_LOG_LINES)
        /\ \A k \in DOMAIN bot_logs :
              bot_logs[k].message = appended - Len(bot_logs) + k

\* the terms of the confidence of a BUY, read off the frame handed in
BelowLowerBand == Less(market.df.latest.close, market.df.latest.bb_lower)

NearLowerBand ==
    LET row == market.df.latest
    IN  /\ ~isna(row.close) /\ ~isna(row.bb_lower) /\ ~isna(row.bb_upper)
        /\ row.bb_upper[1] > row.bb_lower[1]
        /\ (row.close[1] - row.bb_lower[1]) * 100
              < 20 * (row.bb_upper[1] - row.bb_lower[1])

RsiRose ==
    market.df.len > 1 /\ Less(market.df.previous_rsi, market.df.latest.rsi)

MacdAboveSignal ==
    /\ {"macd", "macd_signal"} \subseteq market.df.columns
    /\ Less(market.df.latest.macd_signal, market.df.latest.macd)

Ema20BelowEma50 ==
    /\ {"ema_20", "ema_50"} \subseteq market.df.columns
    /\ Less(market.df.latest.ema_20, market.df.latest.ema_50)

AdditiveConfidence ==
    35 + (IF BelowLowerBand THEN 25 ELSE IF NearLowerBand THEN 15 ELSE 0)
       + (IF RsiRose THEN 15 ELSE 0)
       + (IF MacdAboveSignal THEN 15 ELSE 0)
       - (IF Ema20BelowEma50 THEN 20 ELSE 0)

RsiBelow30 == Less(market.df.latest.rsi, Float(30))

\* what a BUY has to carry
BuyCarries ==
    /\ trading_signal.confidence =
          (IF AdditiveConfidence < 90 THEN AdditiveConfidence ELSE 90)
    /\ trading_signal.stop_loss = Rat(97 * market.current_price, 100)
    /\ trading_signal.take_profit = Rat(106 * market.current_price, 100)

\* C26 as claimed: the strategy returns BUY exactly when the latest RSI is
\* below 30 and the additive confidence is at least 50; the confidence
\* reported is at most 90, and a BUY carries stop-loss 0.97 x price and
\* take-profit 1.06 x price.
C26_BuyWhenOversold ==
    trading_signal # NoSignal =>
        /\ trading_signal.signal = "BUY"
              <=> (RsiBelow30 /\ AdditiveConfidence >= 50)
        /\ trading_signal.confidence <= 90
        /\ trading_signal.signal = "BUY" => BuyCarries

\* RSI, both bands and the close of the latest bar are numbers
IndicatorsAvailable ==
    LET row == market.df.latest
    IN  /\ ~isna(row.rsi) /\ ~isna(row.bb_upper) /\ ~isna(row.bb_lower)
        /\ ~isna(row.close)

\* C26 as amended: the same, a BUY requiring also that RSI, both bands and
\* the close of the latest bar are available.
C26_BuyWhenOversoldAndAvailable ==
    trading_signal # NoSignal =>
        /\ trading_signal.signal = "BUY"
              <=> (IndicatorsAvailable /\ RsiBelow30
                    /\ AdditiveConfidence >= 50)
        /\ trading_signal.confidence <= 90
        /\ trading_signal.signal = "BUY" => BuyCarries

\* a BUY whose additive confidence of 35 + 25 + 15 + 15 is reported as 90
C26_Witness ==
    /\ trading_signal.signal = "BUY"
    /\ BelowLowerBand /\ RsiRose /\ MacdAboveSignal /\ ~Ema20BelowEma50
    /\ trading_signal.confidence = 90
    /\ market.current_price = 100
    /\ trading_signal.stop_loss = <<97, 1>>
    /\ trading_signal.take_profit = <<106, 1>>

\* C27: while the running flag is true, an exception raised inside a trading
\* cycle does not end the worker loop: the loop is left only through its
\* test finding the flag cleared, and after a cycle that raised, a later
\* cycle is started unless the flag is cleared first.
LoopLeft == bot_loop'.pc = "done" /\ bot_loop.pc # "done"

CycleFailed(n) ==
    /\ cycle.ran /\ cycle.raised
    /\ bot_loop.execution_count = n
    /\ bot_loop.running

C27_FailedCycleKeepsLoop ==
    /\ [][LoopLeft => bot_loop.pc = "loop_test" /\ ~bot_loop.running]_vars
    /\ \A n \in 1..(MaxCycles - 1) :
          CycleFailed(n) ~>
              (~bot_loop.running \/ bot_loop.execution_count = n + 1)

C27_Witness ==
    /\ bot_loop.running
    /\ bot_loop.errors = 1
    /\ bot_loop.execution_count = 2
    /\ cycle.ran /\ ~cycle.raised

\* C28: a cycle whose fetch returned no data for any symbol and timeframe
\* computes no indicator, analyses no symbol and executes no signal.
FetchedNothing ==
    /\ cycle.ran /\ cycle.fetched
    /\ \A symbol \in DOMAIN cycle.all_data : cycle.all_data[symbol] = {}

C28_NoDataAbortsCycle ==
    FetchedNothing =>
        /\ cycle.indicators = {}
        /\ cycle.analyzed = {}
        /\ cycle.executed = {}


\* C29: with a Trade Lifecycle Manager attached, an execute_signal call
\* that returns true has added an Order row for the symbol and left it
\* FILLED; with or without a manager, a call that returns true has set the
\* processor's position of the symbol from the signal, and a call that
\* returns false has left the positions as they were.
C29_TrueMeansRecorded ==
    [][ExecuteStep => \A i \in ExecuteInputs : IsExecute(i) =>
          /\ (ret'.success /\ trading_manager) =>
                /\ Len(orders') = Len(orders) + 1
                /\ orders'[Len(orders')].symbol = i[1]
                /\ orders'[Len(orders')].status = "FILLED"
          /\ ret'.success =>
                /\ positions'[i[1]].side =
                       (IF i[2].signal = "BUY" THEN "buy" ELSE "sell")
                /\ positions'[i[1]].entry_price = i[2].entry_price
                /\ \A s \in TRADING_PAIRS \ {i[1]} :
                       positions'[s] = positions[s]
          /\ ~ret'.success => positions' = positions]_vars

\* C30: fill_order is all-or-nothing.  After the call either the order is
\* FILLED and the position effect of its side is in the tables (a BUY opens
\* the row or adds its quantity to it; a SELL that finds a row appends one
\* trade and deletes or reduces the row, a SELL that finds none touches
\* neither table), or orders, positions and trade history are unchanged.
FillInputs == OrderIds \X FillPrices \X FillLevels \X BOOLEAN

IsFillOf(c) == fill_order(c[1], c[2], c[3][1], c[3][2], c[4])

NothingWritten ==
    /\ orders' = orders
    /\ position_rows' = position_rows
    /\ trade_history' = trade_history

HeldQuantity(rows, symbol) ==
    LET k == FirstPosition(rows, ManagerExecution, symbol)
    IN  IF k = NoneId THEN 0 ELSE rows[k].quantity

FilledWithEffect(order_id) ==
    /\ order_id \in DOMAIN orders
    /\ DOMAIN orders' = DOMAIN orders
    /\ \A k \in DOMAIN orders \ {order_id} : orders'[k] = orders[k]
    /\ orders'[order_id].status = "FILLED"
    /\ LET order == orders[order_id]
           held == HeldQuantity(position_rows, order.symbol)
           now == HeldQuantity(position_rows', order.symbol)
       IN  IF order.side = "BUY"
           THEN /\ now = held + order.quantity
                /\ trade_history' = trade_history
           ELSE IF held > 0
           THEN /\ now = IF order.quantity >= held THEN 0
                         ELSE held - order.quantity
                /\ Len(trade_history') = Len(trade_history) + 1
           ELSE /\ position_rows' = position_rows
                /\ trade_history' = trade_history

C30_FillAllOrNothing ==
    [][FillStep => \A c \in FillInputs : IsFillOf(c) =>
          NothingWritten \/ FilledWithEffect(c[1])]_vars

\* C30 witness: a SELL was filled, its trade is on file and the position it
\* closed is gone, next to a BUY order that no fill has completed.
C30_Witness ==
    /\ ret.op = "fill_order"
    /\ Len(trade_history) = 1
    /\ HeldQuantity(position_rows, "BTC/USDT") = 0
    /\ \E k \in DOMAIN orders :
          /\ orders[k].side = "SELL" /\ orders[k].status = "FILLED"
          /\ orders[k].symbol = "BTC/USDT"


\* C31: load_strategy returns a strategy instance whatever goes wrong while
\* loading: with a missing catalog entry, an empty or missing file, a failing
\* import or an absent class it returns the built-in RSI Mean Reversion
\* strategy, and the worker goes on to initialize with the bot it built.
ConstructStep(w) ==
    /\ w \in DOMAIN workers
    /\ workers[w].pc = "construct"
    /\ workers'[w].pc # "construct"

C31_LoadFallsBack ==
    [][\A w \in DOMAIN workers : ConstructStep(w) =>
          /\ workers'[w].pc = "initialize"
          /\ bots'[w].constructed
          /\ \A case \in LoadCases \ {"loaded"} :
                WorkerConstruct(w, case) =>
                    load_strategy(workers[w].strategy_id, case)
                        = "RSIMeanReversionStrategy"
          /\ WorkerConstruct(w, "loaded") =>
                load_strategy(workers[w].strategy_id, "loaded")
                    = python_class(workers[w].strategy_id)]_vars

\* C31 witness: a worker started for a strategy other than the built-in
\* one, whose construction step is the same whether the load succeeded or
\* fell back, has built its bot and been through initialize.
C31_Witness ==
    \E w \in DOMAIN workers :
        /\ python_class(workers[w].strategy_id) # "RSIMeanReversionStrategy"
        /\ load_strategy(workers[w].strategy_id, "file_missing")
              = "RSIMeanReversionStrategy"
        /\ bots[w].constructed
        /\ workers[w].pc \in {"set_status", "call_start", "loop_test", "sleep"}


\* C32: on a 15m table produced by the indicator engine whose latest RSI is
\* below 40, whose MACD crossed above its signal line between the prior and
\* the current bar and whose volume exceeds 1.2 times its 10-period average,
\* Custom Scalping returns BUY with confidence 70; symmetrically SELL with
\* RSI above 60 and a bearish cross.
Analysed == trading_signal # NoSignal

GoodVolume ==
    /\ market.df.volume_mean > 0
    /\ 10 * market.df.bars[2].volume > 12 * market.df.volume_mean

BullishCross ==
    /\ market.df.bars[1].macd <= market.df.bars[1].macd_signal
    /\ market.df.bars[2].macd > market.df.bars[2].macd_signal

BearishCross ==
    /\ market.df.bars[1].macd >= market.df.bars[1].macd_signal
    /\ market.df.bars[2].macd < market.df.bars[2].macd_signal

EngineTable == market.engine /\ market.df.len >= 50

C32_ScalpingSignals ==
    (Analysed /\ EngineTable /\ GoodVolume) =>
        /\ (market.df.bars[2].rsi < 40 /\ BullishCross) =>
              (trading_signal.signal = "BUY" /\ trading_signal.confidence = 70)
        /\ (market.df.bars[2].rsi > 60 /\ BearishCross) =>
              (trading_signal.signal = "SELL" /\ trading_signal.confidence = 70)


\* C33: a POST /stop of one user stops no bot that a worker of another user
\* built and changes the status of no BotExecution row of another user.
StopFaults == {"none", "query", "commit"}

OthersUntouched(user_id) ==
    /\ \A w \in DOMAIN workers :
          workers[w].user_id # user_id => bots'[w] = bots[w]
    /\ \A k \in DOMAIN executions :
          executions[k].user_id # user_id =>
              executions'[k].status = executions[k].status

C33_StopOnlyOwnBot ==
    [][StopStep => \A user_id \in Users, dbFault \in StopFaults :
          stop_bot(user_id, dbFault) => OthersUntouched(user_id)]_vars


\* C34: every BotExecution row in status running that a /start of this
\* process inserted (a worker was launched with its id, for its user) has a
\* worker that has not ended.
WorkersOf(k) ==
    {w \in DOMAIN workers :
        /\ workers[w].bot_execution_id = k
        /\ workers[w].user_id = executions[k].user_id}

C34_RunningRowHasWorker ==
    \A k \in DOMAIN executions :
        (executions[k].status = "running" /\ WorkersOf(k) # {})
            => \E w \in WorkersOf(k) : Alive(w)


\* C35: an execute_signal call that executes a SELL for a symbol (the
\* processor's position of the symbol becoming sell) leaves no Position row
\* of that symbol under the execution.
C35_SellLeavesNoRow ==
    [][ExecuteStep => \A i \in ExecuteInputs :
          (/\ IsExecute(i)
           /\ trading_manager
           /\ i[2].signal = "SELL"
           /\ positions[i[1]].side # "sell"
           /\ positions'[i[1]].side = "sell")
              => HeldQuantity(position_rows', i[1]) = 0]_vars

\* C36: the quantity of a TradeHistory row that fill_order records is at
\* most the quantity the position of its symbol held before the call.
C36_TradeWithinPosition ==
    [][FillStep => \A c \in FillInputs :
          (IsFillOf(c) /\ Len(trade_history') = Len(trade_history) + 1)
              => LET trade == trade_history'[Len(trade_history')]
                 IN  trade.quantity
                        <= HeldQuantity(position_rows, trade.symbol)]_vars

\* C37: a marketplace strategy's total_purchases equals the number of
\* purchased entitlement rows on file for it.
PurchasedRows(strategy_id) ==
    {r \in user_strategies :
        r.strategy_id = strategy_id /\ r.access_type = "purchased"}

C37_CounterMatchesEntitlements ==
    \A strategy_id \in DOMAIN strategies :
        strategies[strategy_id].type = "marketplace"
            => strategies[strategy_id].total_purchases
                   = Cardinality(PurchasedRows(strategy_id))

\* C38: a POST /binance/connect that ends in a 401 authentication failure
\* leaves the api key, the secret and the environment of the user's existing
\* active connection as the request found them.
C38_FailedConnectKeepsCredentials ==
    [][ConnectAnswered =>
        \A h \in DOMAIN handlers :
            (/\ handlers[h].op = "connect"
             /\ handlers[h].row # NoneId
             /\ connect_validated(h, "AuthenticationError")) =>
                \A found \in {handlers[h].loaded}, id \in {handlers[h].row} :
                    /\ wallet_connections'[id].encrypted_api_key
                          = found.encrypted_api_key
                    /\ wallet_connections'[id].encrypted_secret_key
                          = found.encrypted_secret_key
                    /\ wallet_connections'[id].exchange_environment
                          = found.exchange_environment]_vars

====
